---- MODULE Spec2Model ----
(***************************************************************************)
(* A model of the "mini" interpreter core: the tree-walking evaluator      *)
(* (src/src/evaluator.py) over parent-linked environments, and the Pratt   *)
(* parser (src/src/parser.py) over a token stream, and the lexer           *)
(* (src/src/lexer.py) over a character source.                             *)
(*                                                                         *)
(* The evaluator is a recursive function of (expression, env) over a       *)
(* mutable store; it is modelled as RECURSIVE operators that thread the    *)
(* store.  A result is [st, val, err]: err = "" is a normal return, any    *)
(* other err is a raised exception, carrying the store as mutated so far.  *)
(*                                                                         *)
(* evaluator.py is written against Environment (src/environment.py, not    *)
(* part of the sources at hand) and against AST / atom classes that carry  *)
(* `type`, `raw_str`, `SliceNode` and a named FunctionAtom, which the      *)
(* ast.py / atoms.py at hand do not define.  Those parts follow the        *)
(* written specification and are marked so in the model map.               *)
(*                                                                         *)
(* Out of the modelled fragment: non-integer numbers, DIVIDE / MODULO /    *)
(* POWER arithmetic, the built-in catalogue.                               *)
(***************************************************************************)
EXTENDS Integers, Sequences, FiniteSets, TLC

VARIABLES
    program,    \* evaluator: the ProgramNode's expressions handed to evaluate()
    store,      \* evaluator: environments, container heap and event history
    result,     \* evaluator: the value evaluate() returned
    error,      \* "" or the message of the exception that escaped evaluate() / parse()
    status,     \* evaluator: "ready" | "done" | "error" | "off"
    tokens,     \* parser: the token names the lexer will deliver, in order
    pos,        \* parser: number of tokens consumed from the lexer
    tree,       \* parser: the expressions of the ProgramNode parse() returned
    pstatus,    \* parser: "ready" | "done" | "error" | "off"
    lexer,      \* lexer: the Lexer object
    returned,   \* lexer: the latest peek_token / next_token call and what it gave
    delivered   \* lexer: the tokens next_token has returned so far, EOF left out

vars == <<program, store, result, error, status, tokens, pos, tree, pstatus,
          lexer, returned, delivered>>

(***************************************************************************)
(* AST nodes (ast.py).  A node is a record tagged by `node`.               *)
(***************************************************************************)
AtomicNode(type, value) == [node |-> "Atomic", type |-> type, value |-> value]

TupleNode(elements) == [node |-> "Tuple", elements |-> elements]

ListNode(elements) == [node |-> "List", elements |-> elements]

\* pairs: a sequence of <<key node, value node>>, in source order
MapNode(pairs) == [node |-> "Map", pairs |-> pairs]

BlockNode(expressions) == [node |-> "Block", expressions |-> expressions]

LambdaNode(params, body) == [node |-> "Lambda", params |-> params, body |-> body]

UnaryNode(operator, rhs) == [node |-> "Unary", operator |-> operator, rhs |-> rhs]

BinaryNode(operator, left, right) ==
    [node |-> "Binary", operator |-> operator, left |-> left, right |-> right]

IfNode(condition, ifBody, elseIfs, elseBody) ==
    [node |-> "If", condition |-> condition, ifBody |-> ifBody,
     elseIfs |-> elseIfs, elseBody |-> elseBody]

SliceNode(start, end, step) == [node |-> "Slice", start |-> start, end |-> end, step |-> step]

\* Python's None where a node is optional
NoneNode == [node |-> "None"]

Id(name) == AtomicNode("identifier", name)

Num(n) == AtomicNode("number", n)

(***************************************************************************)
(* Runtime atoms (atoms.py).  `class` is the Python class, `type` the      *)
(* Atom.type tag.  A list / tuple / map atom is a mutable object: its      *)
(* `value` is the address of its payload in the heap, so that two names    *)
(* holding the same atom see each other's writes.                          *)
(***************************************************************************)
ValueAtom(type, value) == [class |-> "ValueAtom", type |-> type, value |-> value]

FunctionAtom(argumentNames, body, environment, name) ==
    [class |-> "FunctionAtom", type |-> "function",
     value |-> [argumentNames |-> argumentNames, body |-> body,
                environment |-> environment, name |-> name]]

\* ValueAtom("number", <python float>): the number value / den, den > 0; a
\* number atom without den holds a Python int
FloatAtom(value, den) ==
    [class |-> "ValueAtom", type |-> "number", value |-> value, den |-> den]

\* int(a.value) of a number atom: truncation towards zero
PyInt(a) ==
    IF "den" \notin DOMAIN a THEN a.value
    ELSE IF a.value >= 0 THEN a.value \div a.den
    ELSE 0 - ((0 - a.value) \div a.den)

Unit == ValueAtom("unit", 0)

\* Python's None where an atom is expected (Environment.get of an unbound name)
NoneAtom == [class |-> "NoneType", type |-> "None", value |-> 0]

IsValueAtom(a) == a.class = "ValueAtom"

IsContainer(a) == IsValueAtom(a) /\ a.type \in {"list", "tuple", "map"}

(***************************************************************************)
(* The store.  envs[i] is the i-th Environment ever created (1 = root);    *)
(* heap[a] is the payload of a container atom: `items` for a list / tuple, *)
(* `keys` and `items` (insertion-ordered) for a map.  trace is a history   *)
(* of what the evaluator did, written by Log and read only by properties.  *)
(***************************************************************************)
Root == 1

Event(ev, env, aux, name, val, args, names) ==
    [ev |-> ev, env |-> env, aux |-> aux, name |-> name, val |-> val,
     args |-> args, names |-> names]

Log(st, e) == [st EXCEPT !.trace = Append(@, e)]

Ok(st, val) == [st |-> st, val |-> val, err |-> ""]

Fail(st, msg) == [st |-> st, val |-> NoneAtom, err |-> msg]

\* ValueAtom(type, <python list>): a fresh container object
NewSeqAtom(st, type, items) ==
    Ok([st EXCEPT !.heap = Append(@, [keys |-> <<>>, items |-> items])],
       ValueAtom(type, Len(st.heap) + 1))

\* ValueAtom("map", <python dict>): a fresh container object
NewMapAtom(st, keys, items) ==
    Ok([st EXCEPT !.heap = Append(@, [keys |-> keys, items |-> items])],
       ValueAtom("map", Len(st.heap) + 1))

\* a dict key: Python str or int
KeyStr(s) == [kt |-> "str", kv |-> s, ki |-> 0]

KeyInt(i) == [kt |-> "int", kv |-> "", ki |-> i]

\* position of key k in a key sequence, 0 when absent
KeyIndex(keys, k) ==
    IF \E i \in 1..Len(keys) : keys[i] = k
    THEN CHOOSE i \in 1..Len(keys) : keys[i] = k
    ELSE 0

(***************************************************************************)
(* Environment (environment.py): a frame of bindings with a parent link.   *)
(***************************************************************************)
\* a frame's bindings before the first set
EmptyVars == [n \in {} |-> NoneAtom]

\* Environment(label, parent): the new frame is the last of st.envs
Environment(st, label, parent) ==
    [st EXCEPT !.envs = Append(@, [label |-> label, parent |-> parent, vars |-> EmptyVars])]

NewestEnv(st) == Len(st.envs)

RECURSIVE Environment_get(_, _, _)
\* env.get(name): walk the parent links; None when no frame binds name
Environment_get(st, env, name) ==
    IF env = 0 THEN NoneAtom
    ELSE IF name \in DOMAIN st.envs[env].vars THEN st.envs[env].vars[name]
    ELSE Environment_get(st, st.envs[env].parent, name)

\* env.set(name, value): write in this frame only
Environment_set(st, env, name, val) ==
    Log([st EXCEPT !.envs[env].vars =
             [n \in (DOMAIN @) \cup {name} |-> IF n = name THEN val ELSE @[n]]],
        Event("set", env, 0, name, val, <<>>, {}))

RECURSIVE EnvChain(_, _)
\* the frames a lookup from env visits, nearest first
EnvChain(st, env) ==
    IF env = 0 THEN <<>> ELSE <<env>> \o EnvChain(st, st.envs[env].parent)

\* the names a lookup from env can resolve
ResolvableNames(st, env) ==
    UNION {DOMAIN st.envs[EnvChain(st, env)[i]].vars : i \in 1..Len(EnvChain(st, env))}

\* what each frame a lookup from env visits binds name to (None: not bound there)
Bindings(st, env, name) ==
    [i \in 1..Len(EnvChain(st, env)) |->
        IF name \in DOMAIN st.envs[EnvChain(st, env)[i]].vars
        THEN st.envs[EnvChain(st, env)[i]].vars[name]
        ELSE NoneAtom]

\* the elements a container atom holds
Payload(st, a) == IF IsContainer(a) THEN st.heap[a.value].items ELSE <<>>

(***************************************************************************)
(* Evaluator helpers (evaluator.py).                                       *)
(***************************************************************************)
\* compatible_types: "" when it returns True, else the message it raises
compatible_types(lhs, rhs, types) ==
    IF ~IsValueAtom(lhs) THEN "Left hand side in expression is not an atomic value"
    ELSE IF ~IsValueAtom(rhs) THEN "Right hand side in expression is not an atomic value"
    ELSE IF lhs.type \in types /\ rhs.type \in types THEN ""
    ELSE "Incompatible types"

\* compatible_type: "" when it returns True, else the message it raises
compatible_type(value, types) ==
    IF ~IsValueAtom(value) THEN "Value is not an atomic value"
    ELSE IF value.type \in types THEN ""
    ELSE "Incompatible types"

is_identifier(expression) ==
    expression.node = "Atomic" /\ expression.type = "identifier"

RECURSIVE is_identifier_members(_)
is_identifier_members(expression) ==
    /\ expression.node = "Binary"
    /\ expression.operator = "DOT"
    /\ (is_identifier(expression.left) \/ is_identifier_members(expression.left))
    /\ is_identifier(expression.right)

is_index_expression(expression) ==
    expression.node = "Binary" /\ expression.operator = "INDEX"

RECURSIVE get_left_most_bin_term(_, _)
get_left_most_bin_term(expression, op) ==
    IF expression.node = "Binary" /\ expression.operator = op
    THEN get_left_most_bin_term(expression.left, op)
    ELSE expression

\* node.value as a Python subscript: a str or an int (a bool is an int);
\* a node without a `value` attribute makes the attribute access raise
NodeKey(node) ==
    IF node.node # "Atomic" THEN [kt |-> "AttributeError", kv |-> "", ki |-> 0]
    ELSE IF node.type \in {"identifier", "string"} THEN KeyStr(node.value)
    ELSE IF node.type = "bool" THEN KeyInt(IF node.value THEN 1 ELSE 0)
    ELSE KeyInt(node.value)

RECURSIVE flatten_bin_terms(_, _, _)
\* the path of a member expression: the `.value` of every right operand
flatten_bin_terms(expression, op, includeBase) ==
    IF expression.node = "Binary" /\ expression.operator = op
    THEN Append(flatten_bin_terms(expression.left, op, includeBase),
                NodeKey(expression.right))
    ELSE IF includeBase THEN <<NodeKey(expression)>> ELSE <<>>

\* Python list index: 0-based, negative counts from the end; 0 when out of range
ListPos(items, i) ==
    IF i >= 0 /\ i < Len(items) THEN i + 1
    ELSE IF i < 0 /\ i >= -Len(items) THEN Len(items) + i + 1
    ELSE 0

\* obj.value[key] of set_nested_value, as a read
GetItem(st, obj, key) ==
    IF key.kt = "AttributeError" THEN Fail(st, "AttributeError")
    ELSE IF ~IsValueAtom(obj) THEN Fail(st, "AttributeError")
    ELSE IF obj.type \in {"list", "tuple"} THEN
        IF key.kt # "int" THEN Fail(st, "TypeError")
        ELSE IF ListPos(st.heap[obj.value].items, key.ki) = 0 THEN Fail(st, "IndexError")
        ELSE Ok(st, st.heap[obj.value].items[ListPos(st.heap[obj.value].items, key.ki)])
    ELSE IF obj.type = "map" THEN
        IF KeyIndex(st.heap[obj.value].keys, key) = 0 THEN Fail(st, "KeyError")
        ELSE Ok(st, st.heap[obj.value].items[KeyIndex(st.heap[obj.value].keys, key)])
    ELSE Fail(st, "TypeError")

\* obj.value[key] = rhs of set_nested_value: a write into the object's payload
SetItem(st, obj, key, rhs) ==
    IF key.kt = "AttributeError" THEN Fail(st, "AttributeError")
    ELSE IF ~IsValueAtom(obj) THEN Fail(st, "AttributeError")
    ELSE IF obj.type \in {"list", "tuple"} THEN
        IF key.kt # "int" THEN Fail(st, "TypeError")
        ELSE IF ListPos(st.heap[obj.value].items, key.ki) = 0 THEN Fail(st, "IndexError")
        ELSE Ok([st EXCEPT !.heap[obj.value].items[ListPos(st.heap[obj.value].items, key.ki)] = rhs], obj)
    ELSE IF obj.type = "map" THEN
        IF KeyIndex(st.heap[obj.value].keys, key) = 0
        THEN Ok([st EXCEPT !.heap[obj.value].keys = Append(@, key),
                           !.heap[obj.value].items = Append(@, rhs)], obj)
        ELSE Ok([st EXCEPT !.heap[obj.value].items[KeyIndex(st.heap[obj.value].keys, key)] = rhs],
                obj)
    ELSE Fail(st, "TypeError")

RECURSIVE set_nested_value(_, _, _, _)
set_nested_value(st, obj, path, rhs) ==
    IF Len(path) = 0 THEN Fail(st, "Member path is empty")
    ELSE IF Len(path) = 1 THEN SetItem(st, obj, path[1], rhs)
    ELSE LET inner == GetItem(st, obj, path[1]) IN
         IF inner.err # "" THEN inner
         ELSE LET r == set_nested_value(st, inner.val, Tail(path), rhs) IN
              IF r.err # "" THEN r
              ELSE SetItem(r.st, obj, path[1], r.val)

\* atom.raw_str(): the text of an atom, for string concatenation and map keys
raw_str(a) ==
    IF a.type = "string" THEN a.value
    ELSE IF a.type = "number" THEN ToString(a.value)
    ELSE IF a.type = "bool" THEN (IF a.value THEN "true" ELSE "false")
    ELSE a.type

(***************************************************************************)
(* The evaluator proper.  Every operator takes the store last and returns  *)
(* [st, val, err].                                                         *)
(***************************************************************************)
RECURSIVE evaluate_expression(_, _, _)
RECURSIVE evaluate_elements(_, _, _)
RECURSIVE evaluate_map_pairs(_, _, _, _, _)
RECURSIVE evaluate_expressions(_, _, _)
RECURSIVE evaluate_else_ifs(_, _, _, _)
RECURSIVE evaluate_binary_atom_expression(_, _, _, _, _)
RECURSIVE evaluate_tuple_plus(_, _, _, _)
RECURSIVE evaluate_call(_, _, _)
RECURSIVE evaluate_function_atom_call(_, _, _)

\* an identifier evaluated without the `val is None` check
evaluate_identifier_unchecked(expression, env, st) ==
    LET val == Environment_get(st, env, expression.value) IN
    Ok(Log(st, Event("ident", env, 0, expression.value, val, <<>>, {})), val)

\* AtomicNode of type identifier: env.get, and the raise on None
evaluate_identifier(expression, env, st) ==
    LET val == Environment_get(st, env, expression.value)
        st1 == Log(st, Event("ident", env, 0, expression.value, val, <<>>, {}))
    IN  IF val.class = "NoneType"
        THEN Fail(st1, "identifier is not defined")
        ELSE Ok(st1, val)

\* the elements evaluated last to first, the values still in source order
evaluate_elements_last_first(elements, env, st) ==
    IF Len(elements) = 0 THEN [st |-> st, vals |-> <<>>, err |-> ""]
    ELSE LET t == evaluate_elements(Tail(elements), env, st) IN
         IF t.err # "" THEN t
         ELSE LET h == evaluate_expression(Head(elements), env, t.st) IN
              [st |-> h.st, vals |-> IF h.err # "" THEN <<>> ELSE <<h.val>> \o t.vals,
               err |-> h.err]

\* list(map(lambda e: evaluate_expression(e, env), elements)): [st, vals, err]
evaluate_elements(elements, env, st) ==
    IF Len(elements) = 0 THEN [st |-> st, vals |-> <<>>, err |-> ""]
    ELSE LET h == evaluate_expression(Head(elements), env, st) IN
         IF h.err # "" THEN [st |-> h.st, vals |-> <<>>, err |-> h.err]
         ELSE LET t == evaluate_elements(Tail(elements), env, h.st) IN
              [st |-> t.st, vals |-> <<h.val>> \o t.vals, err |-> t.err]

evaluate_tuple(expression, env, st) ==
    IF Len(expression.elements) = 0 THEN Ok(st, Unit)
    ELSE IF Len(expression.elements) = 1
    THEN evaluate_expression(expression.elements[1], env, st)
    ELSE LET es == evaluate_elements(expression.elements, env, st) IN
         IF es.err # "" THEN Fail(es.st, es.err)
         ELSE NewSeqAtom(es.st, "tuple", es.vals)

evaluate_list(expression, env, st) ==
    LET es == evaluate_elements(expression.elements, env, st) IN
    IF es.err # "" THEN Fail(es.st, es.err)
    ELSE NewSeqAtom(es.st, "list", es.vals)

\* str(key.value) of a map literal's key node
MapKeyText(key) ==
    IF key.type = "number" THEN ToString(key.value)
    ELSE IF key.type = "bool" THEN (IF key.value THEN "True" ELSE "False")
    ELSE key.value

\* the loop over expression.pairs, filling map_values (keys, items)
evaluate_map_pairs(pairs, env, st, keys, items) ==
    IF Len(pairs) = 0 THEN NewMapAtom(st, keys, items)
    ELSE LET key == Head(pairs)[1] IN
         IF key.node # "Atomic" THEN Fail(st, "Key in map is not an atomic value")
         ELSE IF key.type \notin {"identifier", "string", "number", "integer", "bool"}
         THEN Fail(st, "Key in map is not an identifier, string, integer or bool")
         ELSE LET v == evaluate_expression(Head(pairs)[2], env, st)
                  k == KeyStr(MapKeyText(key))
                  at == KeyIndex(keys, k)
              IN  IF v.err # "" THEN v
                  ELSE IF at = 0
                  THEN evaluate_map_pairs(Tail(pairs), env, v.st,
                                          Append(keys, k), Append(items, v.val))
                  ELSE evaluate_map_pairs(Tail(pairs), env, v.st,
                                          keys, [items EXCEPT ![at] = v.val])

\* a BlockNode evaluated in the enclosing environment itself
evaluate_block_in_enclosing(expression, env, st) ==
    LET st2 == Log(st, Event("enter", env, env, "", NoneAtom, <<>>,
                             ResolvableNames(st, env)))
        r == evaluate_expressions(expression.expressions, env, st2)
    IN  IF r.err # "" THEN r
        ELSE Ok(Log(r.st, Event("exit", env, env, "", r.val, <<>>,
                                ResolvableNames(r.st, env))),
                r.val)

\* a BlockNode evaluated in a fresh Environment("<block>", None)
evaluate_block_without_parent(expression, env, st) ==
    LET st1 == Environment(st, "<block>", 0)
        inner == NewestEnv(st1)
        st2 == Log(st1, Event("enter", env, inner, "", NoneAtom, <<>>,
                              ResolvableNames(st1, env)))
        r == evaluate_expressions(expression.expressions, inner, st2)
    IN  IF r.err # "" THEN r
        ELSE Ok(Log(r.st, Event("exit", env, inner, "", r.val, <<>>,
                                ResolvableNames(r.st, env))),
                r.val)

\* BlockNode: evaluate_expressions in a fresh Environment("<block>", env)
evaluate_block(expression, env, st) ==
    LET st1 == Environment(st, "<block>", env)
        inner == NewestEnv(st1)
        st2 == Log(st1, Event("enter", env, inner, "", NoneAtom, <<>>,
                              ResolvableNames(st1, env)))
        r == evaluate_expressions(expression.expressions, inner, st2)
    IN  IF r.err # "" THEN r
        ELSE Ok(Log(r.st, Event("exit", env, inner, "", r.val, <<>>,
                                ResolvableNames(r.st, env))),
                r.val)

\* a LambdaNode capturing a copy of what the current environment resolves
evaluate_lambda_snapshot(expression, env, st) ==
    LET st1 == [st EXCEPT !.envs = Append(@,
                    [label |-> "<snapshot>", parent |-> 0,
                     vars |-> [n \in ResolvableNames(st, env) |-> Environment_get(st, env, n)]])]
        value == FunctionAtom(expression.params, expression.body, NewestEnv(st1), "lambda")
    IN  Ok(Log(st1, Event("closure", env, 0, "lambda", value, <<>>, {})), value)

\* LambdaNode: a FunctionAtom holding the current environment itself
evaluate_lambda(expression, env, st) ==
    LET value == FunctionAtom(expression.params, expression.body, env, "lambda") IN
    Ok(Log(st, Event("closure", env, 0, "lambda", value, <<>>, {})), value)

\* the loop over expression.elseIfs, then the else body
evaluate_else_ifs(elseIfs, elseBody, env, st) ==
    IF Len(elseIfs) = 0 THEN evaluate_expression(elseBody, env, st)
    ELSE LET cond == evaluate_expression(Head(elseIfs)[1], env, st) IN
         IF cond.err # "" THEN cond
         ELSE IF ~IsValueAtom(cond.val) \/ cond.val.type # "bool"
         THEN Fail(cond.st, "Condition does not evaluate to a bool")
         ELSE IF cond.val.value
         THEN evaluate_expression(Head(elseIfs)[2], env, cond.st)
         ELSE evaluate_else_ifs(Tail(elseIfs), elseBody, env, cond.st)

\* an If that takes a condition that is not a bool for false
evaluate_if_lenient(expression, env, st) ==
    LET cond == evaluate_expression(expression.condition, env, st) IN
    IF cond.err # "" THEN cond
    ELSE IF IsValueAtom(cond.val) /\ cond.val.type = "bool" /\ cond.val.value
    THEN evaluate_expression(expression.ifBody, env, cond.st)
    ELSE evaluate_else_ifs(expression.elseIfs, expression.elseBody, env, cond.st)

\* IfNode: the condition, then the body, the else-ifs or the else body
evaluate_if(expression, env, st) ==
    LET cond == evaluate_expression(expression.condition, env, st) IN
    IF cond.err # "" THEN cond
    ELSE IF ~IsValueAtom(cond.val) \/ cond.val.type # "bool"
    THEN Fail(cond.st, "Condition does not evaluate to a bool")
    ELSE IF cond.val.value
    THEN evaluate_expression(expression.ifBody, env, cond.st)
    ELSE evaluate_else_ifs(expression.elseIfs, expression.elseBody, env, cond.st)

evaluate_unary(expression, env, st) ==
    LET op == expression.operator
        rhs == evaluate_expression(expression.rhs, env, st)
    IN  IF rhs.err # "" THEN rhs
        ELSE IF op = "MINUS" THEN
            IF compatible_type(rhs.val, {"number"}) # ""
            THEN Fail(rhs.st, compatible_type(rhs.val, {"number"}))
            ELSE Ok(rhs.st, ValueAtom("number", 0 - rhs.val.value))
        ELSE IF op = "NOT" THEN
            IF compatible_type(rhs.val, {"bool"}) # ""
            THEN Fail(rhs.st, compatible_type(rhs.val, {"bool"}))
            ELSE Ok(rhs.st, ValueAtom("bool", ~rhs.val.value))
        ELSE Fail(rhs.st, "Unkown unary operator")

\* ASSIGNMENT to an identifier that updates the nearest frame binding the name
evaluate_assignment_search_update(expression, env, st) ==
    LET rhs == evaluate_expression(expression.right, env, st) IN
    IF rhs.err # "" THEN rhs
    ELSE LET name == expression.left.value
             chain == EnvChain(rhs.st, env)
             binders == {i \in 1..Len(chain) : name \in DOMAIN rhs.st.envs[chain[i]].vars}
             target == IF binders = {} THEN env
                       ELSE chain[CHOOSE i \in binders : \A j \in binders : i <= j]
             st1 == Environment_set(rhs.st, target, name, rhs.val)
         IN  Ok(Log(st1, Event("assign", env, 0, name, rhs.val,
                               <<Bindings(rhs.st, env, name), Bindings(st1, env, name)>>, {})),
                rhs.val)

\* ASSIGNMENT, left an identifier: evaluate rhs, env.set, return rhs
evaluate_assignment_identifier(expression, env, st) ==
    LET rhs == evaluate_expression(expression.right, env, st) IN
    IF rhs.err # "" THEN rhs
    ELSE LET st1 == Environment_set(rhs.st, env, expression.left.value, rhs.val) IN
         Ok(Log(st1, Event("assign", env, 0, expression.left.value, rhs.val,
                           <<Bindings(rhs.st, env, expression.left.value),
                             Bindings(st1, env, expression.left.value)>>, {})),
            rhs.val)

\* ASSIGNMENT, left a member or an index expression
evaluate_assignment_member(expression, env, st) ==
    LET op == IF is_identifier_members(expression.left) THEN "DOT" ELSE "INDEX"
        rhs == evaluate_expression(expression.right, env, st)
        base == get_left_most_bin_term(expression.left, op)
    IN  IF rhs.err # "" THEN rhs
        ELSE IF ~is_identifier(base)
        THEN Fail(rhs.st, "Cannot set member of non-identifer values")
        ELSE LET obj == Environment_get(rhs.st, env, base.value)
                 path == flatten_bin_terms(expression.left, op, FALSE)
             IN  IF obj.class = "NoneType" THEN Fail(rhs.st, "Object is not defined")
                 ELSE IF \E i \in 1..Len(path) : path[i].kt = "AttributeError"
                 THEN Fail(rhs.st, "AttributeError")
                 ELSE LET w == set_nested_value(rhs.st, obj, path, rhs.val) IN
                      IF w.err # "" THEN w
                      ELSE Ok(Environment_set(w.st, env, base.value, w.val), rhs.val)

\* a declaration that takes the parameter list as it comes
evaluate_function_declaration_unvalidated(expression, env, st) ==
    LET functionName == expression.left.left
        args == expression.left.right
    IN  IF ~is_identifier(functionName) THEN Fail(st, "Function name is not an identifier")
        ELSE IF args.node # "Tuple" THEN Fail(st, "Function arguments are not a tuple")
        ELSE LET argNames == IF Len(args.elements) = 0 THEN <<>>
                             ELSE [i \in 1..Len(args.elements) |-> args.elements[i].value]
                 value == FunctionAtom(argNames, expression.right, env, functionName.value)
             IN  Ok(Log(Environment_set(st, env, functionName.value, value),
                        Event("declare", env, 0, functionName.value, value, <<>>, {})),
                    value)

\* ASSIGNMENT, left a CALL node: the declaration of a named function
evaluate_function_declaration(expression, env, st) ==
    LET functionName == expression.left.left
        args == expression.left.right
    IN  IF ~is_identifier(functionName) THEN Fail(st, "Function name is not an identifier")
        ELSE IF args.node # "Tuple" THEN Fail(st, "Function arguments are not a tuple")
        ELSE IF \E i \in 1..Len(args.elements) : ~is_identifier(args.elements[i])
        THEN Fail(st, "Function argument is not an identifier")
        ELSE LET argNames == IF Len(args.elements) = 0 THEN <<>>
                             ELSE [i \in 1..Len(args.elements) |-> args.elements[i].value]
                 value == FunctionAtom(argNames, expression.right, env, functionName.value)
             IN  Ok(Log(Environment_set(st, env, functionName.value, value),
                        Event("declare", env, 0, functionName.value, value, <<>>, {})),
                    value)

evaluate_assignment(expression, env, st) ==
    IF is_identifier(expression.left)
    THEN evaluate_assignment_identifier(expression, env, st)
    ELSE IF is_identifier_members(expression.left) \/ is_index_expression(expression.left)
    THEN evaluate_assignment_member(expression, env, st)
    ELSE IF expression.left.node = "Binary" /\ expression.left.operator = "CALL"
    THEN evaluate_function_declaration(expression, env, st)
    ELSE Fail(st, "Invalid assignment")

\* DOT: member access on an evaluated left side
evaluate_dot(expression, lhs, st) ==
    IF ~is_identifier(expression.right) THEN Fail(st, "Cannot access member with non-identifier key")
    ELSE IF ~(IsValueAtom(lhs) /\ lhs.type \in {"map", "tuple", "list"})
    THEN Fail(st, "Cannot access member")
    ELSE IF lhs.type = "map" THEN
        IF KeyIndex(st.heap[lhs.value].keys, KeyStr(expression.right.value)) = 0
        THEN Fail(st, "Map does not contain key")
        ELSE Ok(st, st.heap[lhs.value].items[
                        KeyIndex(st.heap[lhs.value].keys, KeyStr(expression.right.value))])
    ELSE Fail(st, "Cannot access member, not implemented yet")

Clamp(i, lo, hi) == IF i < lo THEN lo ELSE IF i > hi THEN hi ELSE i

RECURSIVE SliceFrom(_, _, _, _)
\* the elements at 0-based positions i, i + step, ... short of e
SliceFrom(items, i, e, step) ==
    IF (step > 0 /\ i >= e) \/ (step < 0 /\ i <= e) THEN <<>>
    ELSE <<items[i + 1]>> \o SliceFrom(items, i + step, e, step)

\* Python's items[start:end:step], step # 0
PySlice(items, start, end, step) ==
    LET n == Len(items)
        s == IF start < 0 THEN start + n ELSE start
        e == IF end < 0 THEN end + n ELSE end
    IN  IF step > 0 THEN SliceFrom(items, Clamp(s, 0, n), Clamp(e, 0, n), step)
        ELSE SliceFrom(items, Clamp(s, -1, n - 1), Clamp(e, -1, n - 1), step)

\* INDEX with a SliceNode on the right, lhs already evaluated
evaluate_slice(expression, lhs, env, st) ==
    LET start == evaluate_expression(expression.right.start, env, st) IN
    IF start.err # "" THEN start
    ELSE LET end == evaluate_expression(expression.right.end, env, start.st) IN
    IF end.err # "" THEN end
    ELSE LET step == IF expression.right.step.node = "None"
                     THEN Ok(end.st, ValueAtom("number", 1))
                     ELSE evaluate_expression(expression.right.step, env, end.st) IN
    IF step.err # "" THEN step
    ELSE IF compatible_types(start.val, end.val, {"number"}) # ""
    THEN Fail(step.st, compatible_types(start.val, end.val, {"number"}))
    ELSE IF compatible_type(step.val, {"number"}) # ""
    THEN Fail(step.st, compatible_type(step.val, {"number"}))
    ELSE IF compatible_type(lhs, {"list", "tuple"}) # ""
    THEN Fail(step.st, compatible_type(lhs, {"list", "tuple"}))
    ELSE IF PyInt(step.val) = 0 THEN Fail(step.st, "ValueError")
    ELSE NewSeqAtom(step.st, lhs.type,
                    PySlice(step.st.heap[lhs.value].items,
                            PyInt(start.val), PyInt(end.val), PyInt(step.val)))

\* PLUSEQUAL, both sides evaluated and no binary operator matched
evaluate_plusequal(expression, lhs, rhs, env, st) ==
    IF compatible_types(lhs, rhs, {"string", "number"}) # ""
    THEN Fail(st, compatible_types(lhs, rhs, {"string", "number"}))
    ELSE IF ~is_identifier(expression.left)
    THEN Fail(st, "Left hand side of mutating assignment operator must be an identifier")
    ELSE LET new_value == IF lhs.type = "string" \/ rhs.type = "string"
                          THEN ValueAtom("string", raw_str(lhs) \o raw_str(rhs))
                          ELSE ValueAtom("number", lhs.value + rhs.value)
             st1 == Environment_set(st, env, expression.left.value, new_value)
         IN  Ok(Log(st1, Event("augassign", env, 0, expression.left.value, new_value,
                               <<Bindings(st, env, expression.left.value),
                                 Bindings(st1, env, expression.left.value)>>, {})),
                new_value)

evaluate_binary(expression, env, st) ==
    LET op == expression.operator IN
    IF op = "ASSIGNMENT" THEN evaluate_assignment(expression, env, st)
    ELSE LET lhs == evaluate_expression(expression.left, env, st) IN
    IF lhs.err # "" THEN lhs
    ELSE IF op = "DOT" THEN evaluate_dot(expression, lhs.val, lhs.st)
    ELSE IF op = "INDEX" /\ expression.right.node = "Slice"
    THEN evaluate_slice(expression, lhs.val, env, lhs.st)
    ELSE LET rhs == evaluate_expression(expression.right, env, lhs.st) IN
    IF rhs.err # "" THEN rhs
    ELSE LET binOpResult == evaluate_binary_atom_expression(op, lhs.val, rhs.val, env, rhs.st) IN
    IF binOpResult.err # "" THEN binOpResult
    ELSE IF binOpResult.val.class # "NoneType" THEN binOpResult
    ELSE IF op = "PLUSEQUAL"
    THEN evaluate_plusequal(expression, lhs.val, rhs.val, env, binOpResult.st)
    ELSE Fail(binOpResult.st, "Unknown binary operator")

\* `lhs.value != rhs.value` on number / string / bool payloads (True is 1)
PyNotEqual(lhs, rhs) ==
    IF lhs.type = rhs.type THEN lhs.value # rhs.value
    ELSE IF lhs.type = "string" \/ rhs.type = "string" THEN TRUE
    ELSE LET n(a) == IF a.type = "bool" THEN (IF a.value THEN 1 ELSE 0) ELSE a.value
         IN  n(lhs) # n(rhs)

\* {**lhs.value, **rhs.value}: lhs' keys in order, then rhs' new keys; rhs wins
MergedKeys(lk, rk) ==
    lk \o SelectSeq(rk, LAMBDA k : KeyIndex(lk, k) = 0)

MergedItems(lk, li, rk, ri) ==
    [i \in 1..Len(MergedKeys(lk, rk)) |->
        LET k == MergedKeys(lk, rk)[i] IN
        IF KeyIndex(rk, k) # 0 THEN ri[KeyIndex(rk, k)] ELSE li[KeyIndex(lk, k)]]

\* the element-wise PLUS of two tuples' payloads: [st, vals, err]
evaluate_tuple_plus(ls, rs, env, st) ==
    IF Len(ls) = 0 THEN [st |-> st, vals |-> <<>>, err |-> ""]
    ELSE LET h == evaluate_binary_atom_expression("PLUS", Head(ls), Head(rs), env, st) IN
         IF h.err # "" THEN [st |-> h.st, vals |-> <<>>, err |-> h.err]
         ELSE LET t == evaluate_tuple_plus(Tail(ls), Tail(rs), env, h.st) IN
              [st |-> t.st, vals |-> <<h.val>> \o t.vals, err |-> t.err]

evaluate_plus(lhs, rhs, env, st) ==
    IF lhs.type = "string" \/ rhs.type = "string"
    THEN Ok(st, ValueAtom("string", raw_str(lhs) \o raw_str(rhs)))
    ELSE IF lhs.type = "list" /\ rhs.type = "list"
    THEN NewSeqAtom(st, "list", st.heap[lhs.value].items \o st.heap[rhs.value].items)
    ELSE IF lhs.type = "number" /\ rhs.type = "number"
    THEN Ok(st, ValueAtom("number", lhs.value + rhs.value))
    ELSE IF lhs.type = "tuple" /\ rhs.type = "tuple" THEN
        IF Len(st.heap[lhs.value].items) # Len(st.heap[rhs.value].items)
        THEN Fail(st, "Tuple size mismatch")
        ELSE LET es == evaluate_tuple_plus(st.heap[lhs.value].items,
                                           st.heap[rhs.value].items, env, st) IN
             IF es.err # "" THEN Fail(es.st, es.err)
             ELSE NewSeqAtom(es.st, "tuple", es.vals)
    ELSE IF lhs.type = "map" /\ rhs.type = "map"
    THEN NewMapAtom(st, MergedKeys(st.heap[lhs.value].keys, st.heap[rhs.value].keys),
                    MergedItems(st.heap[lhs.value].keys, st.heap[lhs.value].items,
                                st.heap[rhs.value].keys, st.heap[rhs.value].items))
    ELSE Fail(st, "Cannot add")

\* INDEX with an evaluated, non-slice right side
evaluate_index(lhs, rhs, st) ==
    IF ~IsValueAtom(rhs) THEN Fail(st, "Indexing expression in not a valid value type")
    ELSE IF rhs.type \notin {"number", "string", "bool"}
    THEN Fail(st, "Indexing expression does not evaluate to an integer or string")
    ELSE IF lhs.type \in {"list", "tuple"} /\ "den" \in DOMAIN rhs
    THEN Fail(st, "TypeError")
    ELSE IF lhs.type \in {"list", "tuple"}
    THEN GetItem(st, lhs, IF rhs.type = "string" THEN KeyStr(rhs.value)
                          ELSE IF rhs.type = "bool" THEN KeyInt(IF rhs.value THEN 1 ELSE 0)
                          ELSE KeyInt(rhs.value))
    ELSE IF KeyIndex(st.heap[lhs.value].keys, KeyStr(raw_str(rhs))) = 0
    THEN Fail(st, "Map does not contain key")
    ELSE Ok(st, st.heap[lhs.value].items[KeyIndex(st.heap[lhs.value].keys, KeyStr(raw_str(rhs)))])

\* CALL that hands a tuple on as one argument
call_arguments_tuple_as_one(rhs, st) ==
    IF IsValueAtom(rhs) /\ rhs.type = "unit" THEN <<>>
    ELSE <<rhs>>

\* CALL: the argument list handed to evaluate_call for an evaluated right side
call_arguments(rhs, st) ==
    IF IsValueAtom(rhs) /\ rhs.type = "tuple" THEN st.heap[rhs.value].items
    ELSE IF IsValueAtom(rhs) /\ rhs.type = "unit" THEN <<>>
    ELSE <<rhs>>

evaluate_call_operator(lhs, rhs, env, st) ==
    LET id == Len(st.trace) + 1
        st1 == Log(st, Event("apply", env, id, "", rhs, Payload(st, rhs),
                             ResolvableNames(st, env)))
        r == evaluate_call(lhs, call_arguments(rhs, st), st1)
    IN  IF r.err # "" THEN r
        ELSE Ok(Log(r.st, Event("applied", env, id, "", r.val, <<>>,
                                ResolvableNames(r.st, env))),
                r.val)

NumberOp(op, lhs, rhs, st) ==
    IF compatible_types(lhs, rhs, {"number"}) # ""
    THEN Fail(st, compatible_types(lhs, rhs, {"number"}))
    ELSE IF "den" \in DOMAIN lhs \/ "den" \in DOMAIN rhs
    THEN Fail(st, "outside the modelled fragment")
    ELSE CASE op = "MINUS" -> Ok(st, ValueAtom("number", lhs.value - rhs.value))
           [] op = "MULTIPLY" -> Ok(st, ValueAtom("number", lhs.value * rhs.value))
           [] op = "DIVIDE" ->
                IF rhs.value = 0 THEN Fail(st, "ZeroDivisionError")
                ELSE IF rhs.value > 0
                THEN Ok(st, FloatAtom(lhs.value, rhs.value))
                ELSE Ok(st, FloatAtom(0 - lhs.value, 0 - rhs.value))
           [] op = "LESS" -> Ok(st, ValueAtom("bool", lhs.value < rhs.value))
           [] op = "GREATER" -> Ok(st, ValueAtom("bool", lhs.value > rhs.value))
           [] op = "LESSEQUAL" -> Ok(st, ValueAtom("bool", lhs.value <= rhs.value))
           [] op = "GREATEREQUAL" -> Ok(st, ValueAtom("bool", lhs.value >= rhs.value))
           [] op = "RANGE" ->
                NewSeqAtom(st, "list",
                           IF rhs.value <= lhs.value THEN <<>>
                           ELSE [i \in 1..(rhs.value - lhs.value) |->
                                    ValueAtom("number", lhs.value + i - 1)])
           [] OTHER -> Fail(st, "outside the modelled fragment")

\* returns Ok(st, NoneAtom) where the Python function returns None
evaluate_binary_atom_expression(op, lhs, rhs, env, st) ==
    IF op = "PLUS" THEN
        IF compatible_types(lhs, rhs, {"string", "number", "bool", "list", "tuple", "map"}) # ""
        THEN Fail(st, compatible_types(lhs, rhs,
                                       {"string", "number", "bool", "list", "tuple", "map"}))
        ELSE evaluate_plus(lhs, rhs, env, st)
    ELSE IF op \in {"MINUS", "MULTIPLY", "DIVIDE", "MODULO", "POWER", "LESS", "GREATER",
                    "LESSEQUAL", "GREATEREQUAL", "RANGE"}
    THEN NumberOp(op, lhs, rhs, st)
    ELSE IF op = "EQUAL" THEN
        IF compatible_types(lhs, rhs, {"number", "string", "bool", "unit", "tuple", "list", "map"}) # ""
        THEN Fail(st, compatible_types(lhs, rhs,
                          {"number", "string", "bool", "unit", "tuple", "list", "map"}))
        ELSE IF lhs.type # rhs.type THEN Ok(st, ValueAtom("bool", FALSE))
        ELSE IF IsContainer(lhs) /\ lhs.value # rhs.value
        THEN Fail(st, "outside the modelled fragment")
        ELSE Ok(st, ValueAtom("bool", lhs.value = rhs.value))
    ELSE IF op = "NOTEQUAL" THEN
        IF compatible_types(lhs, rhs, {"number", "string", "bool"}) # ""
        THEN Fail(st, compatible_types(lhs, rhs, {"number", "string", "bool"}))
        ELSE Ok(st, ValueAtom("bool", PyNotEqual(lhs, rhs)))
    ELSE IF op \in {"AND", "OR"} THEN
        IF compatible_types(lhs, rhs, {"bool"}) # ""
        THEN Fail(st, compatible_types(lhs, rhs, {"bool"}))
        ELSE Ok(st, ValueAtom("bool", IF op = "AND" THEN lhs.value /\ rhs.value
                                      ELSE lhs.value \/ rhs.value))
    ELSE IF op = "INDEX" THEN
        IF compatible_type(lhs, {"list", "tuple", "map"}) # ""
        THEN Fail(st, compatible_type(lhs, {"list", "tuple", "map"}))
        ELSE evaluate_index(lhs, rhs, st)
    ELSE IF op = "CALL" THEN evaluate_call_operator(lhs, rhs, env, st)
    ELSE Ok(st, NoneAtom)

evaluate_call(function, args, st) ==
    IF function.class = "FunctionAtom" THEN evaluate_function_atom_call(function, args, st)
    ELSE IF function.class = "BuiltinFunctionAtom" THEN Fail(st, "outside the modelled fragment")
    ELSE Fail(st, "Cannot call non-function")

RECURSIVE BindArguments(_, _, _, _)
\* for name, val in zip(argumentNames, args): funcEnv.set(name, val)
BindArguments(st, funcEnv, argumentNames, args) ==
    IF Len(argumentNames) = 0 \/ Len(args) = 0 THEN st
    ELSE BindArguments(Environment_set(st, funcEnv, Head(argumentNames), Head(args)),
                       funcEnv, Tail(argumentNames), Tail(args))

\* a closure call without the `len(args) != len(argumentNames)` check
evaluate_function_atom_call_unchecked(function, args, st) ==
    LET f == function.value
        st1 == Environment(st, "<function " \o f.name \o ">", f.environment)
        funcEnv == NewestEnv(st1)
        st2 == Log(st1, Event("call", funcEnv, f.environment, f.name, function, args, {}))
        st3 == BindArguments(st2, funcEnv, f.argumentNames, args)
    IN  evaluate_expression(f.body, funcEnv,
                            Log(st3, Event("body", funcEnv, 0, f.name, NoneAtom, <<>>, {})))

evaluate_function_atom_call(function, args, st) ==
    LET f == function.value
        st1 == Environment(st, "<function " \o f.name \o ">", f.environment)
        funcEnv == NewestEnv(st1)
        st2 == Log(st1, Event("call", funcEnv, f.environment, f.name, function, args, {}))
    IN  IF Len(args) # Len(f.argumentNames)
        THEN Fail(st2, "Function expects a different number of arguments")
        ELSE LET st3 == BindArguments(st2, funcEnv, f.argumentNames, args) IN
             evaluate_expression(f.body, funcEnv,
                                 Log(st3, Event("body", funcEnv, 0, f.name, NoneAtom, <<>>, {})))

\* evaluate_expressions with the `return` inside the loop: the first value is returned
evaluate_expressions_returns_first(expressions, env, st) ==
    IF Len(expressions) = 0 THEN Ok(st, Unit)
    ELSE evaluate_expression(Head(expressions), env, st)

\* evaluate_expressions with the loop body guarded: an expression that raises
\* is passed over and the loop goes on
evaluate_expressions_recovers(expressions, env, st) ==
    IF Len(expressions) = 0 THEN Ok(st, Unit)
    ELSE LET h == evaluate_expression(Head(expressions), env, st) IN
         IF Len(expressions) = 1 THEN Ok(h.st, IF h.err # "" THEN Unit ELSE h.val)
         ELSE evaluate_expressions(Tail(expressions), env, h.st)

\* evaluate_expressions: the loop; `result` starts as unit
evaluate_expressions(expressions, env, st) ==
    IF Len(expressions) = 0 THEN Ok(st, Unit)
    ELSE LET h == evaluate_expression(Head(expressions), env, st) IN
         IF h.err # "" THEN h
         ELSE IF Len(expressions) = 1 THEN h
         ELSE evaluate_expressions(Tail(expressions), env, h.st)

evaluate_expression(expression, env, st) ==
    CASE expression.node = "Atomic" ->
            IF is_identifier(expression) THEN evaluate_identifier(expression, env, st)
            ELSE Ok(st, ValueAtom(expression.type, expression.value))
      [] expression.node = "Tuple" -> evaluate_tuple(expression, env, st)
      [] expression.node = "List" -> evaluate_list(expression, env, st)
      [] expression.node = "Map" -> evaluate_map_pairs(expression.pairs, env, st, <<>>, <<>>)
      [] expression.node = "Block" -> evaluate_block(expression, env, st)
      [] expression.node = "Lambda" -> evaluate_lambda(expression, env, st)
      [] expression.node = "If" -> evaluate_if(expression, env, st)
      [] expression.node = "Unary" -> evaluate_unary(expression, env, st)
      [] expression.node = "Binary" -> evaluate_binary(expression, env, st)
      [] OTHER -> Fail(st, "Unknown expression type")

\* evaluate(program, env)
evaluate(expressions, env, st) == evaluate_expressions(expressions, env, st)

(***************************************************************************)
(* The lexer (lexer.py).  A character is a string of length one and the    *)
(* source a sequence of characters.  lx is the Lexer object: the stream    *)
(* (`source` and the `position` read so far), process_queue, line, column, *)
(* prev_char, peeked_token, prev_comment.  A result is [lx, tok, err]; lx  *)
(* is the object as the call left it, also when it raised.                 *)
(***************************************************************************)
\* None where a character is expected, and the '\0' __peek_char gives at the end
NoChar == ""

Nul == "\\0"

\* None where a token is expected
NoToken == [name |-> "None", value |-> "", line |-> 0, column |-> 0]

\* str.isdigit, str.isalpha, str.isalnum on the characters of the inputs
isdigit(c) == c \in {"0", "1", "2", "3", "4", "5", "6", "7", "8", "9"}

isalpha(c) ==
    c \in {"a", "b", "c", "d", "e", "f", "g", "h", "i", "j", "k", "l", "m",
           "n", "o", "p", "q", "r", "s", "t", "u", "v", "w", "x", "y", "z"}

isalnum(c) == isalpha(c) \/ isdigit(c)

\* Lexer.__init__
Lexer(source) ==
    [source |-> source, position |-> 0, process_queue |-> <<>>, line |-> 1,
     column |-> 1, prev_char |-> NoChar, peeked_token |-> NoToken,
     prev_comment |-> NoToken]

\* Lexer.__token
Lexer_token(lx, name, value) ==
    [name |-> name, value |-> value, line |-> lx.line, column |-> lx.column]

LOk(lx, tok) == [lx |-> lx, tok |-> tok, err |-> ""]

\* Lexer.__error
LFail(lx, msg) == [lx |-> lx, tok |-> NoToken, err |-> msg]

\* Lexer.__queue_request: read until the queue holds `length` characters
queue_request(lx, length) ==
    LET want == length - Len(lx.process_queue)
        left == Len(lx.source) - lx.position
        n == IF want < left THEN want ELSE left
    IN  IF n <= 0 THEN lx
        ELSE [lx EXCEPT !.process_queue =
                            @ \o SubSeq(lx.source, lx.position + 1, lx.position + n),
                        !.position = @ + n]

\* Lexer.__next_char: [lx, c], c = NoChar at the end of the stream
next_char(lx) ==
    LET q == queue_request(lx, 1) IN
    IF Len(q.process_queue) = 0 THEN [lx |-> q, c |-> NoChar]
    ELSE LET c == Head(q.process_queue) IN
         [lx |-> [q EXCEPT !.process_queue = Tail(@),
                           !.line = IF c = "\n" THEN @ + 1 ELSE @,
                           !.column = IF c = "\n" THEN 1
                                      ELSE IF c = "\t" THEN @ + 4 ELSE @ + 1,
                           !.prev_char = c],
          c |-> c]

\* Lexer.__peek_char: [lx, c]
peek_char(lx, offset) ==
    LET q == queue_request(lx, 1 + offset) IN
    [lx |-> q,
     c |-> IF Len(q.process_queue) > offset THEN q.process_queue[offset + 1] ELSE Nul]

RECURSIVE read_string(_, _, _)
\* Lexer.__read_string, s read so far
read_string(lx, quote, s) ==
    LET r == next_char(lx)
        Escapes == [c \in {"n", "t", "r", "\\", "\"", "'"} |->
                       CASE c = "n" -> "\n" [] c = "t" -> "\t" [] c = "r" -> "\r"
                         [] OTHER -> c]
    IN
    IF r.c = NoChar THEN LFail(r.lx, "Expected string content but got EOF")
    ELSE IF r.c = quote THEN LOk(r.lx, Lexer_token(r.lx, "STRING", s))
    ELSE IF r.c = "\\" THEN
        LET e == next_char(r.lx) IN
        IF e.c = NoChar THEN LFail(e.lx, "Expected string escape sequence but got EOF")
        ELSE IF e.c \in DOMAIN Escapes THEN read_string(e.lx, quote, s \o Escapes[e.c])
        ELSE LFail(e.lx, "Invalid escape sequence")
    ELSE read_string(r.lx, quote, s \o r.c)

RECURSIVE read_identifier(_, _)
\* Lexer.__read_identifier, s read so far
read_identifier(lx, s) ==
    LET p == peek_char(lx, 0) IN
    IF isalnum(p.c) \/ p.c = "_"
    THEN LET r == next_char(p.lx) IN read_identifier(r.lx, s \o r.c)
    ELSE LOk(p.lx, Lexer_token(p.lx, "IDENTIFIER", s))

\* float(s), then int(value) if value.is_integer(): s digits with at most one '.'
\* (an integer, or the fraction [num, den] in lowest decimal terms)
NumberValue(s) ==
    LET point == IF \E i \in 1..Len(s) : s[i] = "."
                 THEN CHOOSE i \in 1..Len(s) : s[i] = "." ELSE Len(s)
        RECURSIVE DecimalValue(_)
        DecimalValue(ds) ==
            IF Len(ds) = 0 THEN 0
            ELSE 10 * DecimalValue(SubSeq(ds, 1, Len(ds) - 1))
                 + (CHOOSE d \in 0..9 : ToString(d) = ds[Len(ds)])
        RECURSIVE PowerOfTen(_)
        PowerOfTen(k) == IF k = 0 THEN 1 ELSE 10 * PowerOfTen(k - 1)
        RECURSIVE Reduced(_, _)
        Reduced(n, d) ==
            IF d = 1 THEN n
            ELSE IF n % 10 = 0 THEN Reduced(n \div 10, d \div 10)
            ELSE [num |-> n, den |-> d]
    IN  Reduced(DecimalValue(SelectSeq(s, isdigit)), PowerOfTen(Len(s) - point))

RECURSIVE read_number_loop(_, _, _, _)
\* Lexer.__read_number, the while loop: nnc is the character read before the loop
read_number_loop(lx, s, decimalPoint, nnc) ==
    LET p == peek_char(lx, 0)
        nc == p.c
    IN  IF (isdigit(nc) \/ nc = ".") /\ ~(nc = "." /\ nnc = ".")
           /\ ~(nc = "." /\ decimalPoint)
        THEN LET r == next_char(p.lx) IN
             read_number_loop(r.lx, Append(s, r.c), decimalPoint \/ nc = ".", nnc)
        ELSE LOk(p.lx, Lexer_token(p.lx, "NUMBER", NumberValue(s)))

\* Lexer.__read_number
read_number(lx, first) ==
    LET nnc == peek_char(peek_char(lx, 0).lx, 1) IN
    read_number_loop(nnc.lx, <<first>>, FALSE, nnc.c)

\* Lexer.__is_end_of_expression
is_end_of_expression(c) ==
    c # NoChar /\ (isalnum(c) \/ c \in {"_", "]", "}", ")"})

RECURSIVE read_line_comment(_, _)
\* __read_token, `//`: the comment runs to the character before '\n'
read_line_comment(lx, comment) ==
    LET p == peek_char(lx, 0) IN
    IF p.c = "\n" THEN LOk(p.lx, Lexer_token(p.lx, "COMMENT", comment))
    ELSE LET r == next_char(p.lx) IN
         IF r.c = NoChar THEN LFail(r.lx, "Expected comment content but got EOF")
         ELSE read_line_comment(r.lx, comment \o r.c)

RECURSIVE read_block_comment(_, _)
\* __read_token, `/*`: the comment runs to `*/`
read_block_comment(lx, comment) ==
    LET r == next_char(lx) IN
    IF r.c = NoChar THEN LFail(r.lx, "Expected comment content but got EOF")
    ELSE IF r.c = "*" /\ peek_char(r.lx, 0).c = "/"
    THEN LET e == next_char(peek_char(r.lx, 0).lx) IN
         LOk(e.lx, Lexer_token(e.lx, "COMMENT", comment))
    ELSE read_block_comment(IF r.c = "*" THEN peek_char(r.lx, 0).lx ELSE r.lx,
                            comment \o r.c)

\* `(` and `[` classified on every previous character alike
read_bracket_unclassified(lx, pc, c) ==
    LOk(lx, Lexer_token(lx, IF c = "(" THEN "LPAREN" ELSE "LBRACKET", c))

\* __read_token, c is `(` or `[`: CALL / INDEX after the end of an expression
read_bracket(lx, pc, c) ==
    LOk(lx, Lexer_token(lx, IF is_end_of_expression(pc)
                            THEN (IF c = "(" THEN "CALL" ELSE "INDEX")
                            ELSE (IF c = "(" THEN "LPAREN" ELSE "LBRACKET"),
                        c))

RECURSIVE read_token(_)
\* Lexer.__read_token from `nc = self.__peek_char()` on: c has been consumed
\* and is a character, pc was consumed before it
read_token_at(lx, pc, c) ==
    LET l == peek_char(lx, 0).lx
        nc == peek_char(lx, 0).c
        \* what a word is, as [name, value]
        WordToken(s) ==
            IF s \in {"true", "false"} THEN [name |-> "BOOL", value |-> (s = "true")]
            ELSE IF s \in {"if", "else", "match", "class", "enum", "while", "for",
                           "break", "continue", "return"}
            THEN [name |-> "KEYWORD", value |-> s]
            ELSE IF s \in {"and", "or", "not", "is", "in"}
            THEN [name |-> CASE s = "and" -> "AND" [] s = "or" -> "OR"
                             [] s = "not" -> "NOT" [] s = "is" -> "IS" [] s = "in" -> "IN",
                  value |-> s]
            ELSE [name |-> "IDENTIFIER", value |-> s]
        \* the operators of two characters, <<c, nc, name>>
        TwoCharOperators ==
            { <<"+", "=", "PLUSEQUAL">>, <<"-", "=", "MINUSEQUAL">>,
              <<"*", "=", "TIMESEQUAL">>, <<"/", "=", "DIVEQUAL">>,
              <<"%", "=", "MODEQUAL">>, <<"^", "=", "POWEQUAL">>,
              <<"<", "=", "LESSEQUAL">>, <<">", "=", "GREATEREQUAL">>,
              <<"!", "=", "NOTEQUAL">>, <<"=", "=", "EQUAL">>,
              <<"=", ">", "RIGHTARROW">>, <<"&", "&", "AND">>, <<"|", "|", "OR">>,
              <<"#", "{", "HASHBRACE">>, <<".", ".", "RANGE">> }
        \* the tokens of one character, <<c, name>>, `(` and `[` apart
        OneCharTokens ==
            { <<"+", "PLUS">>, <<"-", "MINUS">>, <<"*", "MULTIPLY">>, <<"/", "DIVIDE">>,
              <<"%", "MODULO">>, <<"^", "POWER">>, <<"<", "LESS">>, <<">", "GREATER">>,
              <<"=", "ASSIGNMENT">>, <<"!", "NOT">>, <<"&", "BITWISEAND">>,
              <<"|", "BITWISEOR">>, <<"~", "BITWISENOT">>, <<"?", "QUESTIONMARK">>,
              <<".", "DOT">>, <<",", "COMMA">>, <<":", "COLON">>, <<";", "SEMICOLON">>,
              <<"{", "LBRACE">>, <<"}", "RBRACE">>, <<")", "RPAREN">>,
              <<"]", "RBRACKET">> }
        two == {t \in TwoCharOperators : t[1] = c /\ t[2] = nc}
        one == {t \in OneCharTokens : t[1] = c}
    IN  IF c \in {" ", "\t", "\n", "\r"} THEN read_token(l)
        ELSE IF c \in {"\"", "'"} THEN read_string(l, c, "")
        ELSE IF isdigit(c) THEN read_number(l, c)
        ELSE IF isalpha(c) \/ c = "_" THEN
            LET t == read_identifier(l, c) IN
            LOk(t.lx, Lexer_token(t.lx, WordToken(t.tok.value).name,
                                  WordToken(t.tok.value).value))
        ELSE IF c = "/" /\ nc = "/" THEN read_line_comment(next_char(l).lx, "")
        ELSE IF c = "/" /\ nc = "*" THEN read_block_comment(next_char(l).lx, "")
        ELSE IF two # {}
        THEN LET n == next_char(l) IN
             LOk(n.lx, Lexer_token(n.lx, (CHOOSE t \in two : TRUE)[3], c \o n.c))
        ELSE IF one # {} THEN LOk(l, Lexer_token(l, (CHOOSE t \in one : TRUE)[2], c))
        ELSE IF c \in {"(", "["} THEN read_bracket(l, pc, c)
        ELSE LFail(l, "Unexpected character")

\* a __read_token that takes the end of the stream for an unexpected character
read_token_without_eof(lx) ==
    LET r == next_char(lx) IN
    IF r.c \in {NoChar, Nul} THEN LFail(r.lx, "Unexpected character")
    ELSE read_token_at(r.lx, lx.prev_char, r.c)

\* Lexer.__read_token: the EOF token at the end of the stream
read_token(lx) ==
    LET r == next_char(lx) IN
    IF r.c \in {NoChar, Nul} THEN LOk(r.lx, Lexer_token(r.lx, "EOF", NoChar))
    ELSE read_token_at(r.lx, lx.prev_char, r.c)

RECURSIVE Lexer_next_token(_, _)
\* Lexer.next_token
Lexer_next_token(lx, allow_comment) ==
    IF lx.peeked_token.name # "None"
    THEN LOk([lx EXCEPT !.peeked_token = NoToken], lx.peeked_token)
    ELSE LET Filtered(t) ==
                 IF t.err # "" THEN t
                 ELSE IF ~allow_comment /\ t.tok.name = "COMMENT"
                 THEN Lexer_next_token([t.lx EXCEPT !.prev_comment = t.tok], FALSE)
                 ELSE t
         IN  Filtered(read_token(lx))

\* Lexer.peek_token
Lexer_peek_token(lx, allow_comment) ==
    IF lx.peeked_token.name # "None" THEN LOk(lx, lx.peeked_token)
    ELSE LET Kept(t) ==
                 IF t.err # "" THEN t
                 ELSE LOk([t.lx EXCEPT !.peeked_token = t.tok], t.tok)
         IN  Kept(Lexer_next_token(lx, allow_comment))

(***************************************************************************)
(* The parser (parser.py).  The lexer is seen through next_token /          *)
(* peek_token only: ts is the sequence of tokens it delivers before EOF, p  *)
(* the number of tokens taken so far.  A result is [pos, node, err].        *)
(***************************************************************************)
Token(name, value) == [name |-> name, value |-> value]

\* lexer.peek_token(); lexer.next_token() is the same token with p + 1 taken
peek_token(ts, p) == IF p < Len(ts) THEN ts[p + 1] ELSE Token("EOF", "")

POk(p, node) == [pos |-> p, node |-> node, err |-> ""]

PFail(p, msg) == [pos |-> p, node |-> NoneNode, err |-> msg]

precedence_binary_left ==
    [POWER |-> 30, NOT |-> 30, MULTIPLY |-> 20, DIVIDE |-> 20, MODULO |-> 20,
     PLUS |-> 10, MINUS |-> 10, EQUAL |-> 5]

precedence_binary_right == [AND |-> 20, OR |-> 10]

\* the node classes parser.py builds next to AtomicNode, TupleNode, ListNode,
\* UnaryNode and BinaryNode
FunctionCallNode(name, args) == [node |-> "FunctionCall", name |-> name, args |-> args]

IndexingNode(lhs, index) == [node |-> "Indexing", lhs |-> lhs, index |-> index]

AssignmentNode(name, rhs) == [node |-> "Assignment", name |-> name, rhs |-> rhs]

LambdaFunctionNode(args, body) == [node |-> "LambdaFunction", args |-> args, body |-> body]

\* t.name.lower() of a literal token
LiteralKind(name) ==
    CASE name = "STRING" -> "string"
      [] name = "NUMBER" -> "number"
      [] name = "BOOLEAN" -> "boolean"

RECURSIVE parse_list_of_expressions(_, _, _, _, _)
RECURSIVE parse_primary(_, _)
RECURSIVE parse_binary_rhs(_, _, _, _)
RECURSIVE parse_binary_expression(_, _, _, _)
RECURSIVE parse_expression(_, _)

\* __parse_list_of_expressions; node is the list of nodes, `expressions` the
\* ones parsed so far.  The loop tests nt, the token peeked before the loop
\* (nothing parsed yet) or after the last expression: once a delimiter has
\* been peeked and taken, nt is still that delimiter, the test holds and the
\* body parses another expression.
parse_list_of_expressions(ts, p, delimiter, end_delimiter, expressions) ==
    IF Len(expressions) = 0 /\ peek_token(ts, p).name = end_delimiter
    THEN POk(p + 1, expressions)
    ELSE LET e == parse_expression(ts, p) IN
         IF e.err # "" THEN e
         ELSE IF peek_token(ts, e.pos).name = delimiter
         THEN parse_list_of_expressions(ts, e.pos + 1, delimiter, end_delimiter,
                                        Append(expressions, e.node))
         ELSE IF peek_token(ts, e.pos).name # end_delimiter
         THEN PFail(e.pos, "Expected delimiter or end delimiter")
         ELSE POk(e.pos + 1, Append(expressions, e.node))

\* __parse_primary, t an IDENTIFIER
parse_identifier(ts, p, t) ==
    LET nt == peek_token(ts, p) IN
    IF nt.name = "LPAREN" THEN
        LET args == parse_list_of_expressions(ts, p + 1, "COMMA", "RPAREN", <<>>) IN
        IF args.err # "" THEN args ELSE POk(args.pos, FunctionCallNode(t.value, args.node))
    ELSE IF nt.name = "LBRACKET" THEN
        LET index == parse_expression(ts, p + 1) IN
        IF index.err # "" THEN index
        ELSE IF peek_token(ts, index.pos).name # "RBRACKET"
        THEN PFail(index.pos + 1, "Expected RBRACKET")
        ELSE POk(index.pos + 1, IndexingNode(AtomicNode("identifier", t.value), index.node))
    ELSE IF nt.name = "ASSIGNMENT" THEN
        LET rhs == parse_expression(ts, p + 1) IN
        IF rhs.err # "" THEN rhs ELSE POk(rhs.pos, AssignmentNode(t.value, rhs.node))
    ELSE POk(p, AtomicNode("identifier", t.value))

\* __parse_primary, t an LPAREN: a tuple, or a lambda when `=>` follows
parse_parenthesis(ts, p) ==
    LET lhs == parse_list_of_expressions(ts, p, "COMMA", "RPAREN", <<>>) IN
    IF lhs.err # "" THEN lhs
    ELSE IF peek_token(ts, lhs.pos).name # "RIGHTARROW" THEN POk(lhs.pos, TupleNode(lhs.node))
    ELSE IF \E i \in 1..Len(lhs.node) : lhs.node[i].node # "Atomic"
    THEN PFail(lhs.pos + 1, "Lambda argument is not an identifier!")
    ELSE LET body == parse_expression(ts, lhs.pos + 1) IN
         IF body.err # "" THEN body
         ELSE POk(body.pos,
                  LambdaFunctionNode(IF Len(lhs.node) = 0 THEN <<>>
                                     ELSE [i \in 1..Len(lhs.node) |-> lhs.node[i].value],
                                     body.node))

\* a __parse_primary that takes a keyword for a name
parse_primary_keyword_as_name(ts, p) ==
    LET t == peek_token(ts, p) IN
    IF t.name = "IDENTIFIER" THEN parse_identifier(ts, p + 1, t)
    ELSE IF t.name \in {"STRING", "NUMBER", "BOOLEAN"}
    THEN POk(p + 1, AtomicNode(LiteralKind(t.name), t.value))
    ELSE IF t.name = "KEYWORD" THEN POk(p + 1, AtomicNode("identifier", t.value))
    ELSE IF t.name = "LPAREN" THEN parse_parenthesis(ts, p + 1)
    ELSE IF t.name = "LBRACKET" THEN
        LET elements == parse_list_of_expressions(ts, p + 1, "COMMA", "RBRACKET", <<>>) IN
        IF elements.err # "" THEN elements ELSE POk(elements.pos, ListNode(elements.node))
    ELSE IF t.name \in {"MINUS", "NOT"} THEN
        LET rhs == parse_expression(ts, p + 1) IN
        IF rhs.err # "" THEN rhs ELSE POk(rhs.pos, UnaryNode(t.name, rhs.node))
    ELSE PFail(p + 1, "Expected primary expression")

parse_primary(ts, p) ==
    LET t == peek_token(ts, p) IN
    IF t.name = "IDENTIFIER" THEN parse_identifier(ts, p + 1, t)
    ELSE IF t.name \in {"STRING", "NUMBER", "BOOLEAN"}
    THEN POk(p + 1, AtomicNode(LiteralKind(t.name), t.value))
    ELSE IF t.name = "KEYWORD" THEN PFail(p + 1, "Keyword is not implemented!")
    ELSE IF t.name = "LPAREN" THEN parse_parenthesis(ts, p + 1)
    ELSE IF t.name = "LBRACKET" THEN
        LET elements == parse_list_of_expressions(ts, p + 1, "COMMA", "RBRACKET", <<>>) IN
        IF elements.err # "" THEN elements ELSE POk(elements.pos, ListNode(elements.node))
    ELSE IF t.name \in {"MINUS", "NOT"} THEN
        LET rhs == parse_expression(ts, p + 1) IN
        IF rhs.err # "" THEN rhs ELSE POk(rhs.pos, UnaryNode(t.name, rhs.node))
    ELSE PFail(p + 1, "Expected primary expression")

\* the condition of the inner loop for lookahead l after operator op:
\* "yes", "no", or "KeyError" when a table is subscripted with a missing key
climbs(l, op) ==
    IF l \in DOMAIN precedence_binary_left
          /\ op \notin DOMAIN precedence_binary_left THEN "KeyError"
    ELSE IF l \in DOMAIN precedence_binary_left
          /\ precedence_binary_left[l] > precedence_binary_left[op] THEN "yes"
    ELSE IF l \in DOMAIN precedence_binary_right
          /\ op \notin DOMAIN precedence_binary_right THEN "KeyError"
    ELSE IF l \in DOMAIN precedence_binary_right
          /\ precedence_binary_right[l] = precedence_binary_right[op] THEN "yes"
    ELSE "no"

\* the inner loop with `>=` for `>`
parse_binary_rhs_not_strict(ts, p, rhs, op) ==
    LET l == peek_token(ts, p).name IN
    IF l \in DOMAIN precedence_binary_left /\ op \in DOMAIN precedence_binary_left
          /\ precedence_binary_left[l] >= precedence_binary_left[op]
    THEN LET r == parse_binary_expression(ts, p, rhs, precedence_binary_left[l]) IN
         IF r.err # "" THEN r ELSE parse_binary_rhs(ts, r.pos, r.node, op)
    ELSE POk(p, rhs)

\* __parse_binary_expression, the inner loop: rhs grows while the lookahead
\* binds tighter than op
parse_binary_rhs(ts, p, rhs, op) ==
    LET l == peek_token(ts, p).name IN
    IF climbs(l, op) = "KeyError" THEN PFail(p, "KeyError")
    ELSE IF climbs(l, op) = "no" THEN POk(p, rhs)
    ELSE IF l \notin DOMAIN precedence_binary_left THEN PFail(p, "KeyError")
    ELSE LET r == parse_binary_expression(ts, p, rhs, precedence_binary_left[l]) IN
         IF r.err # "" THEN r ELSE parse_binary_rhs(ts, r.pos, r.node, op)

\* __parse_binary_expression, the outer loop
parse_binary_expression(ts, p, lhs, precedence) ==
    LET l == peek_token(ts, p).name IN
    IF \/ l \in DOMAIN precedence_binary_left /\ precedence_binary_left[l] >= precedence
       \/ l \in DOMAIN precedence_binary_right /\ precedence_binary_right[l] > precedence
    THEN LET first == parse_primary(ts, p + 1) IN
         IF first.err # "" THEN first
         ELSE LET rhs == parse_binary_rhs(ts, first.pos, first.node, l) IN
              IF rhs.err # "" THEN rhs
              ELSE parse_binary_expression(ts, rhs.pos, BinaryNode(l, lhs, rhs.node),
                                           precedence)
    ELSE POk(p, lhs)

parse_expression(ts, p) ==
    LET primary == parse_primary(ts, p) IN
    IF primary.err # "" THEN primary
    ELSE parse_binary_expression(ts, primary.pos, primary.node, 0)

RECURSIVE parse(_, _, _)
\* parse(): the loop until lexer.is_done(); node is program.expressions
parse(ts, p, expressions) ==
    IF peek_token(ts, p).name = "EOF" THEN POk(p, expressions)
    ELSE LET e == parse_expression(ts, p) IN
         IF e.err # "" THEN e ELSE parse(ts, e.pos, Append(expressions, e.node))

(***************************************************************************)
(* Inputs of the evaluator: programs over small catalogues of top-level    *)
(* expressions.  Every program of up to MaxProg expressions drawn from one *)
(* catalogue is an input.                                                  *)
(***************************************************************************)
MaxProg == 4

Assign(left, right) == BinaryNode("ASSIGNMENT", left, right)

Call(callee, arguments) == BinaryNode("CALL", callee, TupleNode(arguments))

Plus(left, right) == BinaryNode("PLUS", left, right)

Index(left, right) == BinaryNode("INDEX", left, right)

Dot(left, right) == BinaryNode("DOT", left, right)

\* names and blocks
ScopeExprs ==
    { Assign(Id("x"), Num(1)),
      BinaryNode("PLUSEQUAL", Id("x"), Num(2)),
      Id("x"),
      Id("y"),
      BlockNode(<<Assign(Id("y"), Id("x")), Assign(Id("x"), Num(5)), Plus(Id("x"), Id("y"))>>),
      BlockNode(<<BinaryNode("PLUSEQUAL", Id("x"), Num(3))>>),
      BlockNode(<<BlockNode(<<Assign(Id("y"), Num(1))>>), Id("y")>>) }

\* closures: capture, frames, names bound by a body
ClosureExprs ==
    { Assign(Id("x"), Num(1)),
      Assign(Id("x"), Num(2)),
      Assign(Call(Id("f"), <<>>), Id("x")),
      Call(Id("f"), <<>>),
      Assign(Id("g"), LambdaNode(<<"a">>, TupleNode(<<Assign(Id("y"), Id("a")),
                                                    Assign(Id("x"), Plus(Id("x"), Id("y")))>>))),
      Call(Id("g"), <<Num(7)>>),
      BlockNode(<<Assign(Id("x"), Num(4)), Call(Id("f"), <<>>)>>),
      BlockNode(<<Assign(Id("z"), Num(4)), Call(Id("g"), <<Id("z")>>)>>),
      Id("y") }

\* calls: arity, argument lists, declarations
CallExprs ==
    { Assign(Call(Id("h"), <<Id("a"), Id("b")>>), BinaryNode("MINUS", Id("a"), Id("b"))),
      Assign(Call(Id("k"), <<Id("a")>>), Id("a")),
      Assign(Call(Id("k"), <<Id("a"), Num(1)>>), Id("a")),
      Assign(Id("t"), TupleNode(<<Num(5), Num(3)>>)),
      BlockNode(<<Call(Id("k"), <<Call(Id("h"), <<Num(1), Num(2)>>)>>)>>),
      Call(Id("h"), <<Id("t")>>),
      Call(Id("k"), <<Id("t")>>),
      Call(Id("k"), <<TupleNode(<<>>)>>),
      Call(Id("k"), <<ListNode(<<Num(1), Num(2)>>)>>),
      Call(Id("h"), <<>>),
      BlockNode(<<Assign(Call(Id("k"), <<Id("c")>>), Plus(Id("c"), Id("c"))),
                  Call(Id("k"), <<Num(1)>>)>>) }

\* containers: member and index assignment
MemberExprs ==
    { Assign(Id("xs"), ListNode(<<Num(1), Num(2)>>)),
      Assign(Id("ys"), Id("xs")),
      Assign(Id("m"), MapNode(<<<<Id("a"), Id("xs")>>, <<Id("b"), Num(0)>>>>)),
      Assign(Id("n"), ListNode(<<Id("xs"), Num(3)>>)),
      Assign(Index(Id("xs"), Num(0)), Num(5)),
      Assign(Dot(Id("m"), Id("b")), Num(6)),
      Assign(Index(Index(Id("n"), Num(0)), Num(1)), Num(8)),
      Assign(Index(Dot(Id("m"), Id("a")), Num(1)), Num(7)),
      Index(Id("ys"), Num(0)),
      Index(Dot(Id("m"), Id("a")), Num(1)) }

\* tuples: literals of every length, slices, element-wise sums
TupleExprs ==
    { Assign(Id("t"), TupleNode(<<Num(5), Num(3), Num(1)>>)),
      TupleNode(<<>>),
      TupleNode(<<Num(7)>>),
      Assign(Id("u"), TupleNode(<<TupleNode(<<>>), TupleNode(<<Id("t")>>)>>)),
      Index(Id("t"), SliceNode(Num(0), Num(2), NoneNode)),
      Assign(Id("s"), Index(Id("t"), SliceNode(Num(1), Num(2), NoneNode))),
      Assign(Id("e"), Index(Id("t"), SliceNode(Num(2), Num(0), NoneNode))),
      Plus(Id("t"), Id("t")),
      Plus(Id("s"), Id("s")),
      Index(Id("s"), Num(0)) }

\* conditionals: conditions are the names p and q, bodies bind a, b, c
IfExprs ==
    { Assign(Id("p"), AtomicNode("bool", TRUE)),
      Assign(Id("p"), AtomicNode("bool", FALSE)),
      Assign(Id("q"), AtomicNode("bool", TRUE)),
      Assign(Id("q"), AtomicNode("bool", FALSE)),
      Assign(Id("q"), Num(0)),
      IfNode(Id("p"), Assign(Id("a"), Num(1)), <<>>, NoneNode),
      IfNode(Id("p"), Assign(Id("a"), Num(1)), <<>>, Assign(Id("c"), Num(3))),
      IfNode(Id("p"), Assign(Id("a"), Num(1)),
             << <<Id("q"), Assign(Id("b"), Num(2))>> >>, NoneNode),
      IfNode(Id("q"), Assign(Id("a"), Num(1)),
             << <<Id("p"), Assign(Id("b"), Num(2))>>, <<Id("q"), Assign(Id("b"), Num(4))>> >>,
             Assign(Id("c"), Num(3))) }

\* operands, elements, map values, callees and arguments that read and bind
\* x and y, so that the order of their evaluation shows
OrderExprs ==
    { Assign(Id("x"), Num(1)),
      Assign(Id("k"), LambdaNode(<<"a", "b">>, Id("a"))),
      Plus(Assign(Id("x"), Num(2)), Id("x")),
      BinaryNode("MINUS", Id("x"), Assign(Id("x"), Num(5))),
      ListNode(<<Assign(Id("y"), Num(1)), Id("y"), Assign(Id("y"), Id("x")), Id("y")>>),
      TupleNode(<<Assign(Id("y"), Num(3)), Assign(Id("x"), Id("y")), Id("x")>>),
      MapNode(<<<<Id("a"), Assign(Id("x"), Num(3))>>, <<Id("b"), Id("x")>>,
                <<Id("a"), Assign(Id("y"), Id("x"))>>>>),
      Call(Assign(Id("g"), Id("k")), <<Assign(Id("x"), Num(4)), Id("x")>>) }


\* non-slice indexing of a list, a tuple and a map, inside and outside their range
IndexExprs ==
    { Assign(Id("xs"), ListNode(<<Num(1), Num(2)>>)),
      Assign(Id("xs"), TupleNode(<<Num(5), Num(3), Num(1)>>)),
      Assign(Id("m"), MapNode(<<<<Id("a"), Num(1)>>, <<Id("b"), Num(0)>>>>)),
      Index(Id("xs"), Num(0)),
      Index(Id("xs"), Num(2)),
      Index(Id("xs"), Num(3)),
      Index(Id("xs"), UnaryNode("MINUS", Num(1))),
      Index(Id("xs"), UnaryNode("MINUS", Num(4))),
      Index(Id("m"), AtomicNode("string", "a")),
      Index(Id("m"), AtomicNode("string", "c")) }


\* slices of a list or a tuple (or of a map) with bounds and steps that are
\* integers, quotients such as 5 / 2, strings and bools
SliceExprs ==
    { Assign(Id("xs"), ListNode(<<Num(5), Num(3), Num(1), Num(7)>>)),
      Assign(Id("xs"), TupleNode(<<Num(5), Num(3), Num(1), Num(7)>>)),
      Assign(Id("xs"), MapNode(<<<<Id("a"), Num(1)>>>>)),
      Index(Id("xs"), SliceNode(Num(0), Num(2), NoneNode)),
      Index(Id("xs"), SliceNode(Num(1), Num(9), Num(2))),
      Index(Id("xs"), SliceNode(Num(0), BinaryNode("DIVIDE", Num(5), Num(2)), NoneNode)),
      Index(Id("xs"), SliceNode(BinaryNode("DIVIDE", Num(3), Num(2)), Num(3), NoneNode)),
      Index(Id("xs"), SliceNode(Num(0), Num(4), BinaryNode("DIVIDE", Num(5), Num(2)))),
      Index(Id("xs"), SliceNode(AtomicNode("string", "a"), Num(2), NoneNode)),
      Index(Id("xs"), SliceNode(Num(0), Num(2), AtomicNode("bool", TRUE))) }


\* expressions that fail in an operand, in an element, in a callee, in an
\* argument, in the body of a call or of themselves, each with operands that
\* bind names after the place that may fail
ErrorExprs ==
    { Assign(Id("x"), Num(1)),
      Assign(Id("k"), LambdaNode(<<"a">>, BinaryNode("MINUS", Id("a"), Num(1)))),
      Plus(Id("x"), Assign(Id("y"), Num(2))),
      BinaryNode("MINUS", Assign(Id("y"), Num(3)), AtomicNode("string", "s")),
      ListNode(<<Assign(Id("y"), Num(1)), Id("u"), Assign(Id("x"), Num(9))>>),
      TupleNode(<<ListNode(<<Id("x"), Assign(Id("z"), Num(1))>>), Id("y"),
                  Assign(Id("x"), Num(5))>>),
      Call(Id("k"), <<AtomicNode("string", "s")>>),
      ListNode(<<Call(Id("k"), <<Id("x")>>), Assign(Id("y"), Num(2))>>) }

Catalogues == {ScopeExprs, ClosureExprs, CallExprs, MemberExprs}

ProgramsOver(exprs) == UNION {[1..n -> exprs] : n \in 0..MaxProg}

(***************************************************************************)
(* Inputs of the parser: token streams of operands joined by the           *)
(* left-associative operators, up to MaxOps operators; one operator with   *)
(* its two operands may stand in parentheses, and the last operand may be  *)
(* missing.                                                                *)
(***************************************************************************)
MaxOps == 3

LeftOperators == {"POWER", "MULTIPLY", "DIVIDE", "MODULO", "PLUS", "MINUS", "EQUAL"}

OperandNames == <<"a", "b", "c", "d", "e", "f", "g", "h">>

\* the i-th operand: identifiers and numbers in turn
Operand(i) ==
    IF i % 2 = 1 THEN Token("IDENTIFIER", OperandNames[i]) ELSE Token("NUMBER", i)

RECURSIVE SentenceFrom(_, _, _, _)
\* operand i and what follows it
SentenceFrom(ops, group, dangling, i) ==
    IF i > Len(ops) + 1 \/ (dangling /\ i = Len(ops) + 1) THEN <<>>
    ELSE (IF group = i THEN <<Token("LPAREN", "(")>> ELSE <<>>)
         \o <<Operand(i)>>
         \o (IF group > 0 /\ group + 1 = i THEN <<Token("RPAREN", ")")>> ELSE <<>>)
         \o (IF i <= Len(ops) THEN <<Token(ops[i], ops[i])>> ELSE <<>>)
         \o SentenceFrom(ops, group, dangling, i + 1)

\* the operator sequences of the inputs
OperatorRuns == UNION {[1..n -> LeftOperators] : n \in 0..MaxOps}

RightOperators == {"AND", "OR"}

\* operator sequences that mix the right-associative operators with two
\* left-associative ones
MixedRuns == UNION {[1..n -> RightOperators \cup {"PLUS", "MULTIPLY"}] : n \in 0..MaxOps}

MaxArgs == 3

\* what the lexer delivers for `(`: LPAREN, or CALL directly after an
\* identifier character (lexer.py lines 305-308)
Openers == {"LPAREN", "CALL"}

RECURSIVE ArgumentTokens(_, _)
\* operands i..n separated by commas
ArgumentTokens(i, n) ==
    IF i > n THEN <<>>
    ELSE <<Operand(i)>> \o (IF i < n THEN <<Token("COMMA", ",")>> ELSE <<>>)
         \o ArgumentTokens(i + 1, n)

\* the tokens of `name(arg, ...)`, the parenthesis lexed as `opener`; a
\* trailing operator and operand when `more`
CallSentence(name, opener, n, more) ==
    <<Token("IDENTIFIER", name), Token(opener, "(")>> \o ArgumentTokens(1, n)
    \o <<Token("RPAREN", ")")>>
    \o (IF more THEN <<Token("PLUS", "+"), Operand(n + 1)>> ELSE <<>>)

\* the i-th element of a written list: a name, a number, a string or a sum
ElementTokens(kind, i) ==
    CASE kind = "name" -> <<Token("IDENTIFIER", OperandNames[i])>>
      [] kind = "number" -> <<Token("NUMBER", i)>>
      [] kind = "string" -> <<Token("STRING", "s")>>
      [] kind = "sum" -> <<Token("IDENTIFIER", "a"), Token("PLUS", "+"), Token("NUMBER", i)>>

ElementKinds == {"name", "number", "sum"}

\* the lists of one to MaxArgs element kinds
ElementRuns == UNION {[1..n -> ElementKinds] : n \in 1..MaxArgs}

RECURSIVE ElementsFrom(_, _, _)
\* elements i.. of kinds, separated by commas, a comma after the last when trailing
ElementsFrom(kinds, i, trailing) ==
    IF i > Len(kinds) THEN <<>>
    ELSE ElementTokens(kinds[i], i)
         \o (IF i < Len(kinds) \/ trailing THEN <<Token("COMMA", ",")>> ELSE <<>>)
         \o ElementsFrom(kinds, i + 1, trailing)

\* the delimited lists: a parenthesised list, a list literal, the arguments of a call
ListForms == {"tuple", "list", "call"}

\* the tokens of a delimited list of the given form, with an operator and an
\* operand after the end delimiter when `more`
ListSentence(form, kinds, trailing, more) ==
    (CASE form = "tuple" -> <<Token("LPAREN", "(")>>
       [] form = "list" -> <<Token("LBRACKET", "[")>>
       [] form = "call" -> <<Token("IDENTIFIER", "f"), Token("LPAREN", "(")>>)
    \o ElementsFrom(kinds, 1, trailing)
    \o (IF form = "list" THEN <<Token("RBRACKET", "]")>> ELSE <<Token("RPAREN", ")")>>)
    \o (IF more THEN <<Token("PLUS", "+"), Token("NUMBER", 9)>> ELSE <<>>)

\* what may be written between the parentheses before `=>`
ParameterKinds == {"name", "number", "string", "sum"}

ParameterRuns == UNION {[1..n -> ParameterKinds] : n \in 0..MaxArgs}

\* the tokens of `(e1, ..., en) => body`, the body `a` or, when long, `a + 1`
LambdaSentence(kinds, long) ==
    <<Token("LPAREN", "(")>> \o ElementsFrom(kinds, 1, FALSE)
    \o <<Token("RPAREN", ")"), Token("RIGHTARROW", "=>"), Token("IDENTIFIER", "a")>>
    \o (IF long THEN <<Token("PLUS", "+"), Token("NUMBER", 1)>> ELSE <<>>)

\* the prefix operators as the lexer delivers them: `-`, `!` and `not`
PrefixTokens == {Token("MINUS", "-"), Token("NOT", "!"), Token("NOT", "not")}

\* the tokens of `prefix a op b`, after `c +` when led
PrefixSentence(prefix, op, led) ==
    (IF led THEN <<Token("IDENTIFIER", "c"), Token("PLUS", "+")>> ELSE <<>>)
    \o <<prefix, Token("IDENTIFIER", "a"), Token(op, op), Token("IDENTIFIER", "b")>>

(***************************************************************************)
(* The evaluator as a state machine: one call of evaluate(program, root).  *)
(***************************************************************************)
\* the store handed to evaluate: a root environment without bindings
InitStore ==
    [envs |-> <<[label |-> "<root>", parent |-> 0, vars |-> EmptyVars]>>,
     heap |-> <<>>,
     trace |-> <<>>]

ParserOff == tokens = <<>> /\ pos = 0 /\ tree = NoneNode /\ pstatus = "off"

\* no call made yet
NoCall == [call |-> "", allow_comment |-> FALSE, token |-> NoToken, error |-> ""]

LexerOff == lexer = Lexer(<<>>) /\ returned = NoCall /\ delivered = <<>>

InitOver(exprs) ==
    /\ program \in ProgramsOver(exprs)
    /\ store = InitStore
    /\ result = NoneAtom
    /\ error = ""
    /\ status = "ready"
    /\ ParserOff
    /\ LexerOff

Init == InitOver(UNION Catalogues)

\* evaluate() returns a value
EvaluateReturns ==
    /\ status = "ready"
    /\ LET r == evaluate(program, Root, store) IN
        /\ r.err = ""
        /\ store' = r.st
        /\ result' = r.val
        /\ error' = ""
        /\ status' = "done"
    /\ UNCHANGED <<program, tokens, pos, tree, pstatus, lexer, returned, delivered>>

\* evaluate() is left by an exception
EvaluateRaises ==
    /\ status = "ready"
    /\ LET r == evaluate(program, Root, store) IN
        /\ r.err # ""
        /\ store' = r.st
        /\ result' = NoneAtom
        /\ error' = r.err
        /\ status' = "error"
    /\ UNCHANGED <<program, tokens, pos, tree, pstatus, lexer, returned, delivered>>

Next == EvaluateReturns \/ EvaluateRaises

Spec == Init /\ [][Next]_vars

\* the same machine, its programs drawn from one catalogue
ScopeSpec == InitOver(ScopeExprs) /\ [][Next]_vars

ClosureSpec == InitOver(ClosureExprs) /\ [][Next]_vars

CallSpec == InitOver(CallExprs) /\ [][Next]_vars

MemberSpec == InitOver(MemberExprs) /\ [][Next]_vars

TupleSpec == InitOver(TupleExprs) /\ [][Next]_vars

IfSpec == InitOver(IfExprs) /\ [][Next]_vars

OrderSpec == InitOver(OrderExprs) /\ [][Next]_vars

IndexSpec == InitOver(IndexExprs) /\ [][Next]_vars

SliceSpec == InitOver(SliceExprs) /\ [][Next]_vars

ErrorSpec == InitOver(ErrorExprs) /\ [][Next]_vars

(***************************************************************************)
(* The parser as a state machine: one call of parse() on a token stream.   *)
(***************************************************************************)
EvaluatorOff ==
    program = <<>> /\ store = InitStore /\ result = NoneAtom /\ status = "off"

ParserInit ==
    /\ \E ops \in OperatorRuns : \E group \in 0..Len(ops) : \E dangling \in BOOLEAN :
           tokens = SentenceFrom(ops, group, dangling, 1)
    /\ pos = 0
    /\ tree = <<>>
    /\ pstatus = "ready"
    /\ error = ""
    /\ EvaluatorOff
    /\ LexerOff

\* parse() returns a ProgramNode
ParseReturns ==
    /\ pstatus = "ready"
    /\ LET r == parse(tokens, pos, <<>>) IN
        /\ r.err = ""
        /\ pos' = r.pos
        /\ tree' = r.node
        /\ error' = ""
        /\ pstatus' = "done"
    /\ UNCHANGED <<tokens, program, store, result, status, lexer, returned, delivered>>

\* parse() is left by an exception
ParseRaises ==
    /\ pstatus = "ready"
    /\ LET r == parse(tokens, pos, <<>>) IN
        /\ r.err # ""
        /\ pos' = r.pos
        /\ tree' = <<>>
        /\ error' = r.err
        /\ pstatus' = "error"
    /\ UNCHANGED <<tokens, program, store, result, status, lexer, returned, delivered>>

ParserNext == ParseReturns \/ ParseRaises

ParserSpec == ParserInit /\ [][ParserNext]_vars

\* the parser started on a given token stream
ParserStart ==
    /\ pos = 0
    /\ tree = <<>>
    /\ pstatus = "ready"
    /\ error = ""
    /\ EvaluatorOff
    /\ LexerOff

\* the same machine on chains that contain right-associative operators
AssocInit ==
    /\ \E ops \in MixedRuns : \E group \in 0..Len(ops) : \E dangling \in BOOLEAN :
           tokens = SentenceFrom(ops, group, dangling, 1)
    /\ ParserStart

AssocSpec == AssocInit /\ [][ParserNext]_vars

\* the same machine on calls, alone, twice in a row or followed by an operator
CallSyntaxInit ==
    /\ \E name \in {"f", "g"} : \E opener \in Openers : \E n \in 0..MaxArgs :
       \E more \in BOOLEAN : \E again \in {"", "f", "g"} : \E reopener \in Openers :
           tokens = CallSentence(name, opener, n, more)
                    \o (IF again = "" THEN <<>> ELSE CallSentence(again, reopener, 1, FALSE))
    /\ ParserStart

CallSyntaxSpec == CallSyntaxInit /\ [][ParserNext]_vars

\* the same machine on delimited lists, with and without a trailing separator
ListInit ==
    /\ \E form \in ListForms : \E kinds \in ElementRuns :
       \E trailing \in BOOLEAN : \E more \in BOOLEAN :
           tokens = ListSentence(form, kinds, trailing, more)
    /\ ParserStart

ListSpec == ListInit /\ [][ParserNext]_vars

\* the same machine on parenthesised lists followed by `=>` and on prefix
\* operators followed by a binary expression
PrimaryInit ==
    /\ \/ \E kinds \in ParameterRuns : \E long \in BOOLEAN :
              tokens = LambdaSentence(kinds, long)
       \/ \E prefix \in PrefixTokens : \E op \in LeftOperators : \E led \in BOOLEAN :
              tokens = PrefixSentence(prefix, op, led)
    /\ ParserStart

PrimarySpec == PrimaryInit /\ [][ParserNext]_vars

(***************************************************************************)
(* The parser on a Lexer: parse() on the tokens the lexer makes of a       *)
(* source text.                                                             *)
(***************************************************************************)
RECURSIVE LexedTokens(_)
\* the tokens next_token() delivers from lx on, up to EOF; a token named
\* LexerError ends the stream where the lexer raises
LexedTokens(lx) ==
    LET rest(r) ==
            IF r.err # "" THEN <<Token("LexerError", r.err)>>
            ELSE IF r.tok.name = "EOF" THEN <<>>
            ELSE <<Token(r.tok.name, r.tok.value)>> \o LexedTokens(r.lx)
    IN  rest(Lexer_next_token(lx, FALSE))

\* the reserved words, character by character
KeywordWords ==
    { <<"i", "f">>, <<"e", "l", "s", "e">>, <<"m", "a", "t", "c", "h">>,
      <<"c", "l", "a", "s", "s">>, <<"e", "n", "u", "m">>, <<"w", "h", "i", "l", "e">>,
      <<"f", "o", "r">>, <<"b", "r", "e", "a", "k">>,
      <<"c", "o", "n", "t", "i", "n", "u", "e">>, <<"r", "e", "t", "u", "r", "n">> }

\* literals of each kind
LiteralWords ==
    { <<"t", "r", "u", "e">>, <<"f", "a", "l", "s", "e">>, <<"7">>, <<"4", "2">>,
      <<"\"", "s", "\"">>, <<"'", "i", "f", "'">> }

\* names that are not reserved
NameWords == { <<"i", "f", "f">>, <<"x">>, <<"f", "o", "r", "m">> }

\* what stands before and after the word: nothing, an operator with an
\* operand, a parenthesis, an expression of its own
Befores == { <<>>, <<"a", "+">>, <<"(">>, <<"a", " ">> }

Afters == { <<>>, <<" ", "+", " ", "b">> }

\* a Parser made on a Lexer on a source that holds one word
SourceInit ==
    /\ \E before \in Befores : \E word \in KeywordWords \cup LiteralWords \cup NameWords :
       \E after \in Afters :
           /\ lexer = Lexer(before \o word \o (IF before = <<"(">> THEN <<")">> ELSE <<>>)
                            \o after)
           /\ tokens = LexedTokens(lexer)
    /\ returned = NoCall /\ delivered = <<>>
    /\ pos = 0
    /\ tree = <<>>
    /\ pstatus = "ready"
    /\ error = ""
    /\ EvaluatorOff

SourceSpec == SourceInit /\ [][ParserNext]_vars

(***************************************************************************)
(* The lexer as a state machine: a Lexer on a source, and the calls of     *)
(* peek_token and next_token a client makes, in any order.                 *)
(***************************************************************************)
MaxChars == 3

MaxDigits == 6

MaxText == 4

\* a new Lexer on a source of up to n of the characters
LexerInit(chars, n) ==
    /\ \E k \in 0..n : \E source \in [1..k -> chars] : lexer = Lexer(source)
    /\ returned = NoCall
    /\ delivered = <<>>
    /\ error = ""
    /\ EvaluatorOff
    /\ ParserOff

\* a call of peek_token(allow_comment)
PeekToken ==
    /\ \E allow_comment \in BOOLEAN :
         LET PeekReturns(r) ==
                 /\ lexer' = r.lx
                 /\ returned' = [call |-> "peek_token", allow_comment |-> allow_comment,
                                 token |-> r.tok, error |-> r.err]
         IN  PeekReturns(Lexer_peek_token(lexer, allow_comment))
    /\ UNCHANGED <<delivered, program, store, result, error, status, tokens, pos, tree, pstatus>>

\* a call of next_token(allow_comment)
NextToken ==
    /\ \E allow_comment \in BOOLEAN :
         LET NextReturns(r) ==
                 /\ lexer' = r.lx
                 /\ returned' = [call |-> "next_token", allow_comment |-> allow_comment,
                                 token |-> r.tok, error |-> r.err]
                 /\ delivered' = IF r.err = "" /\ r.tok.name # "EOF"
                                 THEN Append(delivered, r.tok) ELSE delivered
         IN  NextReturns(Lexer_next_token(lexer, allow_comment))
    /\ UNCHANGED <<program, store, result, error, status, tokens, pos, tree, pstatus>>

LexerNext == PeekToken \/ NextToken

\* a call of is_done(): the source is a text stream, always readable, so the
\* answer is whether peek_token() gives EOF
IsDone ==
    /\ LET DoneReturns(r) ==
                /\ lexer' = r.lx
                /\ returned' = [call |-> "is_done", allow_comment |-> FALSE,
                                token |-> NoToken, error |-> r.err,
                                done |-> (r.err = "" /\ r.tok.name = "EOF")]
       IN  DoneReturns(Lexer_peek_token(lexer, FALSE))
    /\ UNCHANGED <<delivered, program, store, result, error, status, tokens, pos, tree, pstatus>>

CacheNext == PeekToken \/ NextToken \/ IsDone

\* sources of brackets and of what may stand before them
BracketSpec ==
    LexerInit({"a", "1", "_", "(", ")", "[", "]", "}", " ", "+", "\"", ","}, MaxChars)
        /\ [][LexerNext]_vars

\* sources of digits and points
NumberSpec == LexerInit({"1", "0", "."}, MaxDigits) /\ [][LexerNext]_vars

\* sources of words, comments and line ends
CommentSpec == LexerInit({"a", "/", "*", "\n", " "}, MaxText) /\ [][LexerNext]_vars

\* the same sources, is_done() called as well
CacheSpec == LexerInit({"a", "/", "*", "\n", " "}, MaxText) /\ [][CacheNext]_vars

(***************************************************************************)
(* Properties.                                                             *)
(***************************************************************************)
RECURSIVE InOrder(_, _)
\* the first k expressions, each handed to evaluate_expression on its own, in
\* source order, in the root environment, each on the store its predecessor left
InOrder(exprs, k) ==
    IF k = 0 THEN Ok(InitStore, Unit)
    ELSE LET before == InOrder(exprs, k - 1) IN
         IF before.err # "" THEN before
         ELSE evaluate_expression(exprs[k], Root, before.st)

\* C1: evaluate(program, env) evaluates the top-level expressions one after
\* another in source order in the given environment and returns the value of
\* the last one; an empty program returns unit.  (An expression that raises
\* ends the evaluation with that error.)
C1_InOrderLastValue ==
    status # "ready" =>
        LET r == InOrder(program, Len(program)) IN
        /\ store = r.st
        /\ IF r.err = "" THEN status = "done" /\ result = r.val
           ELSE status = "error" /\ error = r.err
        /\ (Len(program) = 0 => status = "done" /\ result = Unit)

\* x = 1; x += 2; x  has returned 3
C1_Witness ==
    /\ status = "done"
    /\ program = <<Assign(Id("x"), Num(1)), BinaryNode("PLUSEQUAL", Id("x"), Num(2)), Id("x")>>
    /\ result = ValueAtom("number", 3)

\* the events that close a Block ("exit") or a call ("applied")
Closings(t) == {j \in 1..Len(t) : t[j].ev \in {"exit", "applied"}}

\* event i opened what event j closes
Opens(t, i, j) ==
    /\ i < j
    /\ t[i].ev = (IF t[j].ev = "exit" THEN "enter" ELSE "apply")
    /\ t[i].aux = t[j].aux
    /\ t[i].env = t[j].env

\* the names bound between events i and j that the environment of event i
\* could not resolve at event i
BoundInside(t, i, j) ==
    {t[k].name : k \in {k \in (i + 1)..(j - 1) : t[k].ev = "set" /\ t[k].name \notin t[i].names}}

\* C2: scope hygiene.  After a Block finishes, no name bound only inside the
\* Block is resolvable from the enclosing environment; after a closure call
\* returns, no parameter or name bound in the body is resolvable from the
\* caller's environment.
C2_ScopeHygiene ==
    \A j \in Closings(store.trace) : \A i \in 1..(j - 1) :
        Opens(store.trace, i, j) =>
            BoundInside(store.trace, i, j) \cap store.trace[j].names = {}

\* a Block and a closure call have both finished after binding new names
C2_Witness ==
    /\ status = "done"
    /\ \E j \in Closings(store.trace) : \E i \in 1..(j - 1) :
        /\ store.trace[j].ev = "exit"
        /\ Opens(store.trace, i, j)
        /\ BoundInside(store.trace, i, j) # {}
    /\ \E j \in Closings(store.trace) : \E i \in 1..(j - 1) :
        /\ store.trace[j].ev = "applied"
        /\ Opens(store.trace, i, j)
        /\ Cardinality(BoundInside(store.trace, i, j)) >= 2

\* the events before event k that bound name in frame env
SetsOn(t, env, name, k) ==
    {s \in 1..(k - 1) : t[s].ev = "set" /\ t[s].env = env /\ t[s].name = name}

LastOf(S) == CHOOSE s \in S : \A r \in S : r <= s

\* the events that began a closure call
Calls(t) == {c \in 1..Len(t) : t[c].ev = "call"}

\* the events that created the function called at event c
Creations(t, c) ==
    {cr \in 1..(c - 1) : t[cr].ev \in {"closure", "declare"} /\ t[cr].val = t[c].val}

\* the reads, in the frame of call c, of names that frame does not bind
FreeReads(t, c) ==
    {k \in (c + 1)..Len(t) :
        /\ t[k].ev = "ident"
        /\ t[k].env = t[c].env
        /\ SetsOn(t, t[c].env, t[k].name, k) = {}}

\* C3: closure capture is by reference.  A call of a lambda or named function
\* created in environment E reads, for a free variable of its body that E
\* binds, the value E binds it to at the time of the read: a reassignment in
\* E after the creation is seen by every later call.
C3_CaptureByReference ==
    \A c \in Calls(store.trace) : \A cr \in Creations(store.trace, c) :
        \A k \in FreeReads(store.trace, c) :
            SetsOn(store.trace, store.trace[cr].env, store.trace[k].name, k) # {} =>
                store.trace[k].val =
                    store.trace[LastOf(SetsOn(store.trace, store.trace[cr].env,
                                              store.trace[k].name, k))].val

\* a call has read the value a free variable was reassigned to after the
\* function was created, and that value differs from the one at creation
C3_Witness ==
    /\ status = "done"
    /\ \E c \in Calls(store.trace) : \E cr \in Creations(store.trace, c) :
        \E k \in FreeReads(store.trace, c) :
            LET E == store.trace[cr].env
                n == store.trace[k].name
            IN  /\ SetsOn(store.trace, E, n, cr) # {}
                /\ LastOf(SetsOn(store.trace, E, n, k)) > cr
                /\ LastOf(SetsOn(store.trace, E, n, k)) < c
                /\ store.trace[k].val = store.trace[LastOf(SetsOn(store.trace, E, n, k))].val
                /\ store.trace[k].val # store.trace[LastOf(SetsOn(store.trace, E, n, cr))].val

\* the events that completed `x = e` ("assign") or `x += e` ("augassign");
\* args[1] / args[2]: what the frames of the chain bound x to before / after
Writes(t, kind) == {i \in 1..Len(t) : t[i].ev = kind}

\* the write of event i found x bound by an ancestor and not by its own frame
Shadows(t, i) ==
    /\ Len(t[i].args[1]) >= 2
    /\ t[i].args[1][1] = NoneAtom
    /\ \E d \in 2..Len(t[i].args[1]) : t[i].args[1][d] # NoneAtom

\* C4: `x = e` and `x += e` write only the current frame: afterwards the
\* current frame binds x to the new value and every ancestor frame binds x
\* (or not) exactly as before.
C4_CurrentFrameOnly ==
    \A i \in Writes(store.trace, "assign") \cup Writes(store.trace, "augassign") :
        /\ store.trace[i].args[2][1] = store.trace[i].val
        /\ \A d \in 2..Len(store.trace[i].args[2]) :
               store.trace[i].args[2][d] = store.trace[i].args[1][d]

\* both kinds of write have shadowed an ancestor's binding inside a Block
C4_Witness ==
    /\ status = "done"
    /\ \E i \in Writes(store.trace, "assign") : Shadows(store.trace, i)
    /\ \E i \in Writes(store.trace, "augassign") : Shadows(store.trace, i)

RECURSIVE NearestBinding(_, _, _, _)
\* what the nearest frame of chain that bound name before event k bound it to
\* last; None when no frame of chain bound it
NearestBinding(t, chain, name, k) ==
    IF chain = <<>> THEN NoneAtom
    ELSE IF SetsOn(t, Head(chain), name, k) # {}
    THEN t[LastOf(SetsOn(t, Head(chain), name, k))].val
    ELSE NearestBinding(t, Tail(chain), name, k)

\* the events that evaluated an identifier
Reads(t) == {k \in 1..Len(t) : t[k].ev = "ident"}

\* what the evaluation of the identifier at event k has to find
Expected(k) ==
    NearestBinding(store.trace, EnvChain(store, store.trace[k].env), store.trace[k].name, k)

\* C5: evaluating an identifier returns the binding of the nearest frame on
\* the parent chain that binds the name; when no frame up to the root binds
\* it, the evaluation fails with the undefined-name error and nothing is
\* evaluated after it.
C5_NearestOrUndefined ==
    \A k \in Reads(store.trace) :
        /\ store.trace[k].val = Expected(k)
        /\ Expected(k) = NoneAtom =>
            /\ k = Len(store.trace)
            /\ status = "error"
            /\ error = "identifier is not defined"

\* a read inside a Block has found the Block's own binding where the root binds
\* the name to another value, and a later read of an unbound name has failed
C5_Witness ==
    /\ status = "error"
    /\ error = "identifier is not defined"
    /\ store.trace[Len(store.trace)].ev = "ident"
    /\ store.trace[Len(store.trace)].val = NoneAtom
    /\ \E k \in Reads(store.trace) :
        /\ store.trace[k].env # Root
        /\ SetsOn(store.trace, store.trace[k].env, store.trace[k].name, k) # {}
        /\ SetsOn(store.trace, Root, store.trace[k].name, k) # {}
        /\ store.trace[k].val #
              store.trace[LastOf(SetsOn(store.trace, Root, store.trace[k].name, k))].val

\* the call of event c was handed as many arguments as the closure has parameters
ArityMatches(t, c) == Len(t[c].args) = Len(t[c].val.value.argumentNames)

\* C6: calling a closure creates a new frame whose parent is the closure's
\* captured environment, binds each parameter name to the argument at the
\* same position and evaluates the body there; when the number of arguments
\* differs from the number of parameters the call fails and the body is not
\* evaluated.
C6_CallFrame ==
    \A c \in Calls(store.trace) :
        LET t == store.trace
            F == t[c].env
            f == t[c].val.value
            n == Len(f.argumentNames)
        IN  /\ store.envs[F].parent = f.environment
            /\ \A e \in 1..(c - 1) : t[e].env # F /\ (t[e].ev = "enter" => t[e].aux # F)
            /\ IF ArityMatches(t, c)
               THEN /\ c + n + 1 <= Len(t)
                    /\ \A p \in 1..n :
                        /\ t[c + p].ev = "set"
                        /\ t[c + p].env = F
                        /\ t[c + p].name = f.argumentNames[p]
                        /\ t[c + p].val = t[c].args[p]
                    /\ t[c + n + 1].ev = "body"
                    /\ t[c + n + 1].env = F
               ELSE /\ c = Len(t)
                    /\ status = "error"
                    /\ error = "Function expects a different number of arguments"
                    /\ DOMAIN store.envs[F].vars = {}

\* a two-parameter closure captured by the root has been called from inside a
\* Block with two arguments, and a later call with no argument has failed
C6_Witness ==
    /\ status = "error"
    /\ Len(store.trace) > 0
    /\ store.trace[Len(store.trace)].ev = "call"
    /\ ~ArityMatches(store.trace, Len(store.trace))
    /\ \E c \in Calls(store.trace) :
        /\ ArityMatches(store.trace, c)
        /\ Len(store.trace[c].args) = 2
        /\ store.trace[c - 1].ev = "apply"
        /\ store.trace[c - 1].env # store.trace[c].val.value.environment

\* the events at which CALL had its two sides evaluated; val is the value of
\* the argument expression, args the elements it held if it is a container
Applies(t) == {i \in 1..Len(t) : t[i].ev = "apply"}

\* the closure call that event i dispatched to
Dispatched(t, i) == i < Len(t) /\ t[i + 1].ev = "call"

\* C7: CALL normalises the evaluated argument expression before dispatch: a
\* tuple value becomes its elements as positional arguments, unit becomes no
\* argument, any other value becomes exactly one positional argument.
C7_ArgumentNormalisation ==
    \A i \in Applies(store.trace) :
        LET t == store.trace
            rhs == t[i].val
        IN  IF Dispatched(t, i)
            THEN IF IsValueAtom(rhs) /\ rhs.type = "tuple" THEN t[i + 1].args = t[i].args
                 ELSE IF IsValueAtom(rhs) /\ rhs.type = "unit" THEN t[i + 1].args = <<>>
                 ELSE t[i + 1].args = <<rhs>>
            ELSE i = Len(t) /\ status = "error" /\ error = "Cannot call non-function"

\* a tuple of two, unit and a number have each been dispatched as arguments
C7_Witness ==
    /\ \E i \in Applies(store.trace) :
        /\ Dispatched(store.trace, i)
        /\ store.trace[i].val.type = "tuple"
        /\ Len(store.trace[i + 1].args) = 2
    /\ \E i \in Applies(store.trace) :
        /\ Dispatched(store.trace, i)
        /\ store.trace[i].val.type = "unit"
        /\ Len(store.trace[i + 1].args) = 0
    /\ \E i \in Applies(store.trace) :
        /\ Dispatched(store.trace, i)
        /\ store.trace[i].val.type = "number"
        /\ Len(store.trace[i + 1].args) = 1

\* expression is `fname(params) = body`
IsDeclaration(expression) ==
    /\ expression.node = "Binary"
    /\ expression.operator = "ASSIGNMENT"
    /\ expression.left.node = "Binary"
    /\ expression.left.operator = "CALL"
    /\ is_identifier(expression.left.left)
    /\ expression.left.right.node = "Tuple"

\* the top-level expressions of the program that are declarations and are reached
Declarations == {i \in 1..Len(program) : IsDeclaration(program[i]) /\ InOrder(program, i - 1).err = ""}

\* every element of the parameter tuple is an identifier atom
WellFormed(expression) ==
    \A p \in 1..Len(expression.left.right.elements) :
        is_identifier(expression.left.right.elements[p])

\* the closure a well-formed declaration evaluated in env stands for
Declared(expression, env) ==
    FunctionAtom(IF Len(expression.left.right.elements) = 0 THEN <<>>
                 ELSE [p \in 1..Len(expression.left.right.elements) |->
                          expression.left.right.elements[p].value],
                 expression.right, env, expression.left.left.value)

\* the events that completed a declaration
Declares(t) == {d \in 1..Len(t) : t[d].ev = "declare"}

RECURSIVE IsChain(_)
\* expression is an identifier followed by DOT / INDEX segments
IsChain(expression) ==
    \/ is_identifier(expression)
    \/ /\ expression.node = "Binary"
       /\ expression.operator \in {"DOT", "INDEX"}
       /\ IsChain(expression.left)

\* the top-level expressions that assign to a chain of at least one segment,
\* are reached, and whose left side can be read beforehand
ChainAssignments ==
    {i \in 1..Len(program) :
        /\ program[i].node = "Binary"
        /\ program[i].operator = "ASSIGNMENT"
        /\ ~is_identifier(program[i].left)
        /\ IsChain(program[i].left)
        /\ InOrder(program, i - 1).err = ""
        /\ evaluate_expression(program[i].left, Root, InOrder(program, i - 1).st).err = ""}

\* C9: an assignment whose left side is any chain of DOT and / or INDEX
\* segments rooted at an identifier stores the right-hand value at the last
\* segment of the path (the intermediate segments are looked up), in the
\* container itself: the container the left side's prefix evaluates to is the
\* same object as before and reading the left side again yields the value.
C9_ChainAssignment ==
    \A i \in IF status = "ready" THEN {} ELSE ChainAssignments :
        LET pre == InOrder(program, i - 1).st
            post == evaluate_expression(program[i], Root, pre)
            holder == evaluate_expression(program[i].left.left, Root, pre).val
        IN  /\ post.err = ""
            /\ evaluate_expression(program[i].left.left, Root, post.st).val = holder
            /\ evaluate_expression(program[i].left, Root, post.st).val = post.val

\* the binding powers of the left-associative operators
BindingPower ==
    [POWER |-> 30, MULTIPLY |-> 20, DIVIDE |-> 20, MODULO |-> 20,
     PLUS |-> 10, MINUS |-> 10, EQUAL |-> 5]

RECURSIVE MatchingClose(_, _, _)
\* the index of the RPAREN that closes the parenthesis open before index i; 0 if none
MatchingClose(ts, i, depth) ==
    IF i > Len(ts) THEN 0
    ELSE IF ts[i].name = "RPAREN"
    THEN (IF depth = 0 THEN i ELSE MatchingClose(ts, i + 1, depth - 1))
    ELSE IF ts[i].name = "LPAREN" THEN MatchingClose(ts, i + 1, depth + 1)
    ELSE MatchingClose(ts, i + 1, depth)

RECURSIVE Reference(_)
RECURSIVE Operands(_)
RECURSIVE Grouped(_, _, _, _)

\* ts read as primary (operator primary)*: [ok, prims, ops], a parenthesised
\* primary being the tuple of the reference parse of its inside
Operands(ts) ==
    LET bad == [ok |-> FALSE, prims |-> <<>>, ops |-> <<>>]
        close == MatchingClose(ts, 2, 0)
        first == IF ts = <<>> THEN [ok |-> FALSE, node |-> NoneNode, len |-> 0]
                 ELSE IF ts[1].name = "IDENTIFIER"
                 THEN [ok |-> TRUE, node |-> AtomicNode("identifier", ts[1].value), len |-> 1]
                 ELSE IF ts[1].name = "NUMBER"
                 THEN [ok |-> TRUE, node |-> AtomicNode("number", ts[1].value), len |-> 1]
                 ELSE IF ts[1].name = "LPAREN" /\ close # 0
                         /\ Operands(SubSeq(ts, 2, close - 1)).ok
                 THEN [ok |-> TRUE, node |-> TupleNode(<<Reference(SubSeq(ts, 2, close - 1))>>),
                       len |-> close]
                 ELSE [ok |-> FALSE, node |-> NoneNode, len |-> 0]
        rest == SubSeq(ts, first.len + 1, Len(ts))
    IN  IF ~first.ok THEN bad
        ELSE IF rest = <<>> THEN [ok |-> TRUE, prims |-> <<first.node>>, ops |-> <<>>]
        ELSE IF rest[1].name \notin LeftOperators THEN bad
        ELSE LET more == Operands(Tail(rest)) IN
             IF ~more.ok THEN bad
             ELSE [ok |-> TRUE, prims |-> <<first.node>> \o more.prims,
                   ops |-> <<rest[1].name>> \o more.ops]

\* the tree over prims[lo..hi]: split at the last of the operators of least
\* binding power, so that equal powers group to the left
Grouped(prims, ops, lo, hi) ==
    IF lo = hi THEN prims[lo]
    ELSE LET least == CHOOSE k \in lo..(hi - 1) :
                          \A j \in lo..(hi - 1) :
                              \/ BindingPower[ops[j]] > BindingPower[ops[k]]
                              \/ BindingPower[ops[j]] = BindingPower[ops[k]] /\ j <= k
         IN  BinaryNode(ops[least], Grouped(prims, ops, lo, least),
                        Grouped(prims, ops, least + 1, hi))

\* the reference precedence parse of a well-formed token stream
Reference(ts) == Grouped(Operands(ts).prims, Operands(ts).ops, 1, Len(Operands(ts).prims))

\* C10: for every expression built from primaries and the left-associative
\* operators (^ * / % + - ==) the parser's tree is the reference precedence
\* parse: higher binding power binds tighter, equal binding powers group to
\* the left.
C10_ReferenceParse ==
    (pstatus \in {"done", "error"} /\ Operands(tokens).ok) =>
        /\ pstatus = "done"
        /\ pos = Len(tokens)
        /\ tree = <<Reference(tokens)>>

\* a - 2 * c - 4  has been parsed to  (a - (2 * c)) - 4
C10_Witness ==
    /\ pstatus = "done"
    /\ Len(tokens) = 7
    /\ tokens[2].name = "MINUS" /\ tokens[4].name = "MULTIPLY" /\ tokens[6].name = "MINUS"
    /\ tree = <<BinaryNode("MINUS",
                           BinaryNode("MINUS", Id("a"), BinaryNode("MULTIPLY", Num(2), Id("c"))),
                           Num(4))>>


(***************************************************************************)
(* C11: a chain of one right-associative operator groups to the right.     *)
(***************************************************************************)
IsOperand(t) == t.name \in {"IDENTIFIER", "NUMBER"}

\* the node of an operand token
OperandNode(t) ==
    IF t.name = "IDENTIFIER" THEN AtomicNode("identifier", t.value)
    ELSE AtomicNode("number", t.value)

\* operand (op operand)+ with one and the same right-associative op
IsRightChain(ts) ==
    /\ Len(ts) >= 3 /\ Len(ts) % 2 = 1
    /\ \A i \in 1..Len(ts) : i % 2 = 1 => IsOperand(ts[i])
    /\ \A i \in 1..Len(ts) : i % 2 = 0 => ts[i].name \in RightOperators /\ ts[i].name = ts[2].name

RECURSIVE RightGrouped(_, _)
\* a op (b op (c ...)) of the chain from token i on
RightGrouped(ts, i) ==
    IF i = Len(ts) THEN OperandNode(ts[i])
    ELSE BinaryNode(ts[i + 1].name, OperandNode(ts[i]), RightGrouped(ts, i + 2))

\* C11: once parse() has ended on a chain `a op b op c ...` of one
\* right-associative operator (&&, ||), it has returned the single
\* expression Binary(op, a, Binary(op, b, ...)).
C11_RightAssociative ==
    (pstatus # "ready" /\ IsRightChain(tokens))
        => (pstatus = "done" /\ tree = <<RightGrouped(tokens, 1)>>)

(***************************************************************************)
(* C12: identifier, opening parenthesis, arguments, `)` parse to a call.   *)
(***************************************************************************)
\* the stream is exactly name ( operand , ... ) with either opening token
IsCallSentence(ts) ==
    /\ Len(ts) >= 3
    /\ ts[1].name = "IDENTIFIER" /\ ts[2].name \in Openers /\ ts[Len(ts)].name = "RPAREN"
    /\ \A i \in 3..(Len(ts) - 1) :
          IF i % 2 = 1 THEN IsOperand(ts[i]) ELSE ts[i].name = "COMMA"
    /\ (Len(ts) > 3 => Len(ts) % 2 = 0)

\* the operands of a call sentence as nodes, in source order
CallArguments(ts) ==
    [k \in 1..((Len(ts) - 2) \div 2) |-> OperandNode(ts[2 * k + 1])]

\* node is a call of `name` with `args`, as a FunctionCallNode or as
\* Binary(CALL, identifier, Tuple)
IsCallOf(node, name, args) ==
    \/ node = FunctionCallNode(name, args)
    \/ node = BinaryNode("CALL", AtomicNode("identifier", name), TupleNode(args))

\* C12: once parse() has ended on `name ( arg , ... )`, the parenthesis
\* lexed as LPAREN or as CALL, it has returned one expression, the call of
\* name with the arguments in source order.
C12_CallSyntax ==
    (pstatus # "ready" /\ IsCallSentence(tokens))
        => (pstatus = "done" /\ Len(tree) = 1
            /\ IsCallOf(tree[1], tokens[1].value, CallArguments(tokens)))


(***************************************************************************)
(* C13: `(` and `[` are CALL / INDEX exactly after the end of an           *)
(* expression.  The sources of BracketSpec are one line without tabs, so   *)
(* a token's column is one more than the number of characters consumed     *)
(* when it was made.                                                       *)
(***************************************************************************)
IsBracket(t) == t.name \in {"CALL", "INDEX", "LPAREN", "LBRACKET"}

\* the character consumed immediately before the bracket token t (NoChar at
\* the start of the source)
Before(t) == IF t.column >= 3 THEN lexer.source[t.column - 2] ELSE NoChar

\* C13: whenever peek_token / next_token returns a token for `(` or `[`, it
\* is CALL / INDEX if the character consumed immediately before the bracket
\* is alphanumeric, `_`, `]`, `}` or `)`, and LPAREN / LBRACKET in every
\* other case (start of input, whitespace, operator, quote, comma).
C13_BracketClassification ==
    (returned.error = "" /\ IsBracket(returned.token)) =>
        LET t == returned.token IN
        /\ lexer.source[t.column - 1] = (IF t.name \in {"CALL", "LPAREN"} THEN "(" ELSE "[")
        /\ t.name \in {"CALL", "INDEX"}
              <=> (isalnum(Before(t)) \/ Before(t) \in {"_", "]", "}", ")"})

C13_Witness ==
    /\ returned.error = "" /\ returned.token.name = "INDEX" /\ Before(returned.token) = ")"
    /\ \E i \in 1..Len(delivered) : delivered[i].name = "LPAREN"

(***************************************************************************)
(* C14: EOF for ever once the source is exhausted.                         *)
(***************************************************************************)
\* every character of the source has been consumed
Exhausted(lx) == lx.position = Len(lx.source) /\ lx.process_queue = <<>>

ReturnsEof(r) == r.error = "" /\ r.token.name = "EOF"

\* C14 as stated: once the character source is exhausted, every later call
\* of peek_token or next_token returns an EOF token.
C14_EofOnceExhausted ==
    [][Exhausted(lexer) => ReturnsEof(returned')]_vars

\* C14 amended: once the character source is exhausted and no token other
\* than EOF is held as the peeked token, every later call of peek_token or
\* next_token returns an EOF token (a token peeked before is delivered
\* first).
C14_EofOnceDrained ==
    [][(Exhausted(lexer) /\ lexer.peeked_token.name \in {"None", "EOF"})
          => ReturnsEof(returned')]_vars

\* EOF has been peeked and is then returned by next_token, tokens delivered before
C14_Witness ==
    /\ Exhausted(lexer) /\ delivered # <<>>
    /\ returned.call = "next_token" /\ ReturnsEof(returned)
    /\ lexer.prev_comment.name = "COMMENT"

(***************************************************************************)
(* C15: no COMMENT token without allow_comment.                            *)
(***************************************************************************)
\* C15: a call of peek_token or next_token made with allow_comment = false
\* never returns a COMMENT token.
C15_NoCommentUnlessAllowed ==
    ~(returned.call # "" /\ ~returned.allow_comment
      /\ returned.error = "" /\ returned.token.name = "COMMENT")

(***************************************************************************)
(* C16: number scanning and the range operator.                            *)
(***************************************************************************)
\* the position of the first '.' of a source digits '.' ['.'] digits, 0 for
\* any other source
FirstPoint(src) ==
    LET points == {i \in 1..Len(src) : src[i] = "."} IN
    IF points = {} THEN 0
    ELSE LET p == CHOOSE i \in points : \A j \in points : i <= j IN
         IF /\ p > 1 /\ p < Len(src)
            /\ points \in {{p}, {p, p + 1}}
            /\ (p + 1 \in points => p + 1 < Len(src))
         THEN p ELSE 0

\* what the claim says the lexer delivers for such a source, as <<name, value>>
NumberTokens(src) ==
    LET p == FirstPoint(src) IN
    IF src[p + 1] = "."
    THEN << <<"NUMBER", NumberValue(SubSeq(src, 1, p - 1))>>, <<"RANGE", "..">>,
            <<"NUMBER", NumberValue(SubSeq(src, p + 2, Len(src)))>> >>
    ELSE << <<"NUMBER", NumberValue(src)>> >>

\* C16: when next_token has reached EOF on a source <digits>..<digits> it
\* has delivered NUMBER, RANGE, NUMBER, and on <digits>.<digits> a single
\* NUMBER, for digit strings of any length.
C16_NumberScanning ==
    (returned.call = "next_token" /\ ReturnsEof(returned) /\ FirstPoint(lexer.source) > 0)
        => /\ Len(delivered) = Len(NumberTokens(lexer.source))
           /\ \A i \in 1..Len(delivered) :
                 /\ delivered[i].name = NumberTokens(lexer.source)[i][1]
                 /\ delivered[i].value = NumberTokens(lexer.source)[i][2]


(***************************************************************************)
(* C17: no tuple of length 0 or 1.                                         *)
(***************************************************************************)
\* a is not a tuple of fewer than two elements
NotShortTuple(a) ==
    (IsValueAtom(a) /\ a.type = "tuple") => Len(store.heap[a.value].items) >= 2

\* C17: no value the evaluation returned, bound to a name or stored in a
\* container is a tuple of length 0 or 1: `()` is unit, `(x)` is the value of
\* x, and slicing a tuple or adding tuples element-wise gives a tuple of at
\* least two elements or the collapsed form.
C17_NoShortTuples ==
    /\ NotShortTuple(result)
    /\ \A e \in 1..Len(store.envs) : \A n \in DOMAIN store.envs[e].vars :
          NotShortTuple(store.envs[e].vars[n])
    /\ \A h \in 1..Len(store.heap) : \A i \in 1..Len(store.heap[h].items) :
          NotShortTuple(store.heap[h].items[i])


(***************************************************************************)
(* C18, C19: conditionals.  The If is the last expression of the program;  *)
(* its conditions are identifiers, so their values are the bindings the    *)
(* expressions before it left, and each body binds a name of its own.      *)
(***************************************************************************)
\* the program has been evaluated, its last expression is an If and the
\* expressions before it returned
EndsWithIf ==
    /\ status # "ready" /\ Len(program) > 0
    /\ program[Len(program)].node = "If"
    /\ InOrder(program, Len(program) - 1).err = ""

\* the conditions and the bodies of the last expression, if first
IfConditions ==
    LET n == program[Len(program)] IN
    <<n.condition>> \o [i \in 1..Len(n.elseIfs) |-> n.elseIfs[i][1]]

IfBodies ==
    LET n == program[Len(program)] IN
    <<n.ifBody>> \o [i \in 1..Len(n.elseIfs) |-> n.elseIfs[i][2]]

\* what the i-th condition evaluates to
ConditionValue(i) ==
    Environment_get(InOrder(program, Len(program) - 1).st, Root, IfConditions[i].value)

IsBool(v) == IsValueAtom(v) /\ v.type = "bool"

\* conditions 1..j are bools and false
AllFalse(j) == \A i \in 1..j : IsBool(ConditionValue(i)) /\ ~ConditionValue(i).value

\* the names read / bound while the If was evaluated, in order
IfEvents(kind) ==
    LET before == Len(InOrder(program, Len(program) - 1).st.trace)
        during == SubSeq(store.trace, before + 1, Len(store.trace))
        of == SelectSeq(during, LAMBDA e : e.ev = kind)
    IN  [i \in 1..Len(of) |-> of[i].name]

\* C18: an If whose conditions are all false and which has no else body
\* evaluates to unit; the conditions are tried in order, and the body of the
\* first true one is the only body evaluated and gives the value.
C18_IfWithoutElse ==
    EndsWithIf =>
        LET n == program[Len(program)]
            conds == IfConditions
        IN  /\ (AllFalse(Len(conds)) /\ n.elseBody = NoneNode) =>
                  /\ status = "done" /\ result = Unit
                  /\ IfEvents("set") = <<>>
            /\ \A j \in 1..Len(conds) :
                  (AllFalse(j - 1) /\ IsBool(ConditionValue(j)) /\ ConditionValue(j).value) =>
                      /\ status = "done" /\ result = ValueAtom("number", IfBodies[j].right.value)
                      /\ IfEvents("set") = <<IfBodies[j].left.value>>
                      /\ IfEvents("ident") = [i \in 1..j |-> conds[i].value]

\* C19: if the condition of an If, or of an elif that is reached, evaluates
\* to something that is not a bool, the evaluation fails with the
\* condition error, and neither that branch's body nor any later condition
\* or body is evaluated.
C19_ConditionMustBeBool ==
    EndsWithIf =>
        \A j \in 1..Len(IfConditions) :
            (AllFalse(j - 1) /\ ConditionValue(j).class # "NoneType"
                /\ ~IsBool(ConditionValue(j))) =>
                /\ status = "error" /\ error = "Condition does not evaluate to a bool"
                /\ IfEvents("set") = <<>>
                /\ IfEvents("ident") = [i \in 1..j |-> IfConditions[i].value]

\* p = false; q = 0; if p ... elif q ... has failed at the elif's condition
C19_Witness ==
    /\ EndsWithIf /\ Len(IfConditions) = 2
    /\ AllFalse(1) /\ ConditionValue(2) = ValueAtom("number", 0)
    /\ status = "error" /\ IfEvents("ident") = <<"p", "q">>


(***************************************************************************)
(* C20: evaluation order.  The effects of an expression are the reads of   *)
(* identifiers and the bindings of names in the root environment;          *)
(* SourceOrder lists them as the source text has them, left to right.      *)
(***************************************************************************)
RECURSIVE SourceOrder(_)
RECURSIVE SourceOrderOfAll(_)
\* the effects of a sequence of expressions, first to last
SourceOrderOfAll(expressions) ==
    IF Len(expressions) = 0 THEN <<>>
    ELSE SourceOrder(Head(expressions)) \o SourceOrderOfAll(Tail(expressions))

SourceOrder(e) ==
    CASE e.node = "Atomic" ->
            IF e.type = "identifier" THEN << <<"ident", e.value>> >> ELSE <<>>
      [] e.node \in {"Tuple", "List"} -> SourceOrderOfAll(e.elements)
      [] e.node = "Map" ->
            SourceOrderOfAll([i \in 1..Len(e.pairs) |-> e.pairs[i][2]])
      [] e.node = "Binary" ->
            IF e.operator = "ASSIGNMENT"
            THEN SourceOrder(e.right) \o << <<"set", e.left.value>> >>
            ELSE SourceOrder(e.left) \o SourceOrder(e.right)
      [] OTHER -> <<>>

\* the reads and bindings the evaluation made in the root environment
RootEffects ==
    LET of == SelectSeq(store.trace, LAMBDA e : e.ev \in {"ident", "set"} /\ e.env = Root)
    IN  [i \in 1..Len(of) |-> <<of[i].ev, of[i].name>>]

\* C20: evaluation is left to right in source order: the effects of a
\* Binary node's left operand come before those of its right operand, a
\* call's callee before its arguments, and list, tuple, map-entry and
\* call-argument expressions first to last.  An evaluation that fails has
\* made the effects up to the failure, in that order.
C20_LeftToRight ==
    LET expected == SourceOrderOfAll(program) IN
    /\ status = "done" => RootEffects = expected
    /\ status = "error" =>
          /\ Len(RootEffects) <= Len(expected)
          /\ RootEffects = SubSeq(expected, 1, Len(RootEffects))

\* a call whose callee and arguments bind and read, after a list, has returned
C20_Witness ==
    /\ status = "done"
    /\ \E i \in 1..Len(store.trace) : store.trace[i].ev = "applied"
    /\ \E i \in 1..Len(program) : program[i].node = "List"
    /\ \E i \in 1..(Len(RootEffects) - 3) :
          SubSeq(RootEffects, i, i + 3) =
             << <<"ident", "k">>, <<"set", "g">>, <<"set", "x">>, <<"ident", "x">> >>

(***************************************************************************)
(* C21: non-slice INDEX.  The indexing is the last expression of the       *)
(* program, of a name the expressions before it bound to a container.      *)
(***************************************************************************)
\* the program has been evaluated and ends with name[key], the expressions
\* before it returned and left name bound to a value
EndsWithIndex ==
    /\ status # "ready" /\ Len(program) > 0
    /\ program[Len(program)].node = "Binary"
    /\ program[Len(program)].operator = "INDEX"
    /\ program[Len(program)].right.node # "Slice"
    /\ InOrder(program, Len(program) - 1).err = ""
    /\ IsValueAtom(Environment_get(InOrder(program, Len(program) - 1).st, Root,
                                   program[Len(program)].left.value))

\* the container indexed and its payload when the indexing begins
Indexed ==
    Environment_get(InOrder(program, Len(program) - 1).st, Root,
                    program[Len(program)].left.value)

IndexedPayload == InOrder(program, Len(program) - 1).st.heap[Indexed.value]

\* the integer the index expression n or -n stands for
Position ==
    LET k == program[Len(program)].right IN
    IF k.node = "Unary" THEN 0 - k.rhs.value ELSE k.value

\* C21: a non-slice INDEX returns the element at a position 0..length-1 of a
\* list or tuple, or the value under the key of a map; for any other
\* position, and for a key the map does not hold, the evaluation fails.
C21_IndexInRangeOrFails ==
    EndsWithIndex =>
        IF Indexed.type \in {"list", "tuple"}
        THEN IF Position \in 0..(Len(IndexedPayload.items) - 1)
             THEN status = "done" /\ result = IndexedPayload.items[Position + 1]
             ELSE status = "error"
        ELSE IF KeyIndex(IndexedPayload.keys, KeyStr(program[Len(program)].right.value)) # 0
             THEN /\ status = "done"
                  /\ result = IndexedPayload.items[
                         KeyIndex(IndexedPayload.keys, KeyStr(program[Len(program)].right.value))]
             ELSE status = "error"

(***************************************************************************)
(* C22: slice indexing.  The slice is the last expression of the program,  *)
(* of a name bound before it; its bounds are literals and quotients, whose *)
(* evaluation binds nothing.                                               *)
(***************************************************************************)
EndsWithSlice ==
    /\ status # "ready" /\ Len(program) > 0
    /\ program[Len(program)].node = "Binary"
    /\ program[Len(program)].operator = "INDEX"
    /\ program[Len(program)].right.node = "Slice"
    /\ InOrder(program, Len(program) - 1).err = ""
    /\ IsValueAtom(Environment_get(InOrder(program, Len(program) - 1).st, Root,
                                   program[Len(program)].left.value))

\* what a bound of the slice evaluates to; the step when none is written is 1
SliceBound(e) ==
    IF e.node = "None" THEN ValueAtom("number", 1)
    ELSE evaluate_expression(e, Root, InOrder(program, Len(program) - 1).st).val

\* a is a number whose value is an integer
IntegerValued(a) ==
    /\ a.type = "number"
    /\ ("den" \in DOMAIN a => a.value % a.den = 0)

\* the integer an integer-valued number is
IntegerOf(a) == IF "den" \in DOMAIN a THEN a.value \div a.den ELSE a.value

\* the elements at the 0-based positions start, start + step, ... below end
Selected(items, start, end, step) ==
    LET at == {p \in 0..(Len(items) - 1) :
                  start <= p /\ p < end /\ (p - start) % step = 0}
        RECURSIVE InOrderOf(_)
        InOrderOf(ps) ==
            IF ps = {} THEN <<>>
            ELSE LET least == CHOOSE p \in ps : \A q \in ps : p <= q
                 IN  <<items[least + 1]>> \o InOrderOf(ps \ {least})
    IN  InOrderOf(at)

\* C22: a slice whose start, end or step is not an integer-valued number fails
\* with a type error, and so does a slice of anything but a list or a tuple;
\* otherwise the result is of the kind of the indexed value and holds the
\* selected elements, the step being 1 when none is written.
C22_SliceBounds ==
    EndsWithSlice =>
        LET sl == program[Len(program)].right
            start == SliceBound(sl.start)
            end == SliceBound(sl.end)
            step == SliceBound(sl.step)
        IN  IF IntegerValued(start) /\ IntegerValued(end) /\ IntegerValued(step)
               /\ Indexed.type \in {"list", "tuple"}
            THEN /\ status = "done"
                 /\ result.type = Indexed.type
                 /\ store.heap[result.value].items =
                       Selected(IndexedPayload.items, IntegerOf(start), IntegerOf(end),
                                IntegerOf(step))
            ELSE status = "error" /\ error = "Incompatible types"

(***************************************************************************)
(* C23: trailing separators in delimited lists.                            *)
(***************************************************************************)
\* the token streams s and t are the same: names first, so that values are
\* compared between tokens of one kind only
SameTokens(s, t) ==
    /\ Len(s) = Len(t)
    /\ \A i \in 1..Len(s) : s[i].name = t[i].name
    /\ \A i \in 1..Len(s) : s[i].name = t[i].name => s[i].value = t[i].value

\* C23: a delimited list of n >= 1 expressions followed by a separator and
\* the end delimiter parses as the list without that separator does: the same
\* nodes, the end delimiter (and what follows it) consumed.
C23_TrailingSeparator ==
    \A form \in ListForms : \A kinds \in ElementRuns : \A more \in BOOLEAN :
        (pstatus # "ready" /\ SameTokens(tokens, ListSentence(form, kinds, TRUE, more))) =>
            /\ pstatus = "done"
            /\ pos = Len(tokens)
            /\ parse(ListSentence(form, kinds, FALSE, more), 0, <<>>).err = ""
            /\ tree = parse(ListSentence(form, kinds, FALSE, more), 0, <<>>).node

(***************************************************************************)
(* C24: a parenthesised list followed by `=>`.                             *)
(***************************************************************************)
\* C24: `(e1, ..., en) => body` parses to a Lambda whose parameters are the
\* names e1..en in order and whose body is the whole next expression when
\* every ei is an identifier; when some ei is a literal or a compound
\* expression the parse fails.
C24_LambdaParameters ==
    \A kinds \in ParameterRuns : \A long \in BOOLEAN :
        (pstatus # "ready" /\ SameTokens(tokens, LambdaSentence(kinds, long))) =>
            IF \A i \in 1..Len(kinds) : kinds[i] = "name"
            THEN /\ pstatus = "done" /\ pos = Len(tokens)
                 /\ Len(tree) = 1
                 /\ tree[1].node = "LambdaFunction"
                 /\ Len(tree[1].args) = Len(kinds)
                 /\ \A i \in 1..Len(kinds) : tree[1].args[i] = OperandNames[i]
                 /\ tree[1].body = (IF long
                                    THEN BinaryNode("PLUS", AtomicNode("identifier", "a"),
                                                    AtomicNode("number", 1))
                                    ELSE AtomicNode("identifier", "a"))
            ELSE pstatus = "error"

(***************************************************************************)
(* C25, C26: words at primary position.  In the sources of SourceSpec the  *)
(* word is the first token, or follows `a +`, `(` or the expression `a`:   *)
(* in each case the parser meets it where a primary is expected.           *)
(***************************************************************************)
\* the source is before, word, after, the word in parentheses after `(`
HoldsWord(before, word, after) ==
    lexer.source = before \o word \o (IF before = <<"(">> THEN <<")">> ELSE <<>>) \o after

\* the index of the word's token in the stream
WordAt(before) == IF before = <<>> THEN 1 ELSE IF Len(before) = 1 THEN 2 ELSE
                  IF before[2] = "+" THEN 3 ELSE 2

\* C25: every reserved keyword met at primary position makes parse fail with
\* the not-implemented error; it is lexed as KEYWORD and no node is returned.
C25_KeywordsRejected ==
    \A before \in Befores : \A word \in KeywordWords : \A after \in Afters :
        (pstatus # "ready" /\ HoldsWord(before, word, after)) =>
            /\ tokens[WordAt(before)].name = "KEYWORD"
            /\ pstatus = "error"
            /\ error = "Keyword is not implemented!"
            /\ pos = WordAt(before)
            /\ tree = <<>>

\* `a + while + b` has failed at the keyword
C25_Witness ==
    /\ HoldsWord(<<"a", "+">>, <<"w", "h", "i", "l", "e">>, <<" ", "+", " ", "b">>)
    /\ Len(tokens) = 5 /\ tokens[3].name = "KEYWORD" /\ tokens[3].value = "while"
    /\ pstatus = "error" /\ error = "Keyword is not implemented!"

\* the kind of Atomic node a literal token stands for
AtomKind(name) ==
    CASE name = "STRING" -> "string" [] name = "NUMBER" -> "number" [] name = "BOOL" -> "bool"

\* C26: a STRING, NUMBER or BOOL token the lexer emits, met at primary
\* position, parses to the Atomic node of its kind with the token's value.
C26_LiteralAtoms ==
    \A before \in {<<>>, <<"a", "+">>} : \A word \in LiteralWords :
        (pstatus # "ready" /\ HoldsWord(before, word, <<>>)) =>
            LET t == tokens[WordAt(before)] IN
            /\ t.name \in {"STRING", "NUMBER", "BOOL"}
            /\ pstatus = "done"
            /\ Len(tree) = 1
            /\ LET atom == IF before = <<>> THEN tree[1] ELSE tree[1].right IN
               /\ atom.node = "Atomic"
               /\ atom.type = AtomKind(t.name)
               /\ atom.value = t.value

(***************************************************************************)
(* C27: prefix operators.                                                  *)
(***************************************************************************)
\* C27: a prefix `-`, `!` or `not` applies to the primary that follows it
\* only: `-a + b` parses as Binary(PLUS, Unary(MINUS, a), b), for every
\* binary operator in the place of `+`.
C27_PrefixBindsPrimary ==
    \A prefix \in PrefixTokens : \A op \in LeftOperators :
        (pstatus # "ready" /\ SameTokens(tokens, PrefixSentence(prefix, op, FALSE))) =>
            /\ pstatus = "done"
            /\ tree = <<BinaryNode(op, UnaryNode(prefix.name, AtomicNode("identifier", "a")),
                                   AtomicNode("identifier", "b"))>>

(***************************************************************************)
(* C28: the parent links.  A frame is made by a Block ("enter": the new    *)
(* frame under the Block's environment) or by a closure call ("call": the  *)
(* new frame under the closure's captured environment).                    *)
(***************************************************************************)
\* the events that made a frame
FrameMakers(t) == {e \in 1..Len(t) : t[e].ev \in {"enter", "call"}}

\* the frame event e made, and the parent it was made with
MadeFrame(t, e) == IF t[e].ev = "enter" THEN t[e].aux ELSE t[e].env

MadeUnder(t, e) == IF t[e].ev = "enter" THEN t[e].env ELSE t[e].aux

\* C28: the parent links form a forest rooted at the root environment: the
\* root has no parent, every other frame was made by one Block or call with
\* a parent that existed before it, still has the parent it was made with
\* after everything evaluated since, and a lookup from any frame visits each
\* frame at most once and ends at the root.
C28_ParentForest ==
    LET t == store.trace
        n == Len(store.envs)
    IN  /\ store.envs[Root].parent = 0
        /\ \A i \in 2..n :
              /\ store.envs[i].parent \in 1..(i - 1)
              /\ Cardinality({e \in FrameMakers(t) : MadeFrame(t, e) = i}) = 1
              /\ \A e \in FrameMakers(t) :
                    MadeFrame(t, e) = i => store.envs[i].parent = MadeUnder(t, e)
        /\ \A i \in 1..n :
              LET chain == EnvChain(store, i)
              IN  /\ chain[Len(chain)] = Root
                  /\ \A a, b \in 1..Len(chain) : chain[a] = chain[b] => a = b

\* Blocks and calls have made frames three deep, and a name was bound in a
\* frame that hangs under another frame than the root
C28_Witness ==
    /\ \E e, c \in FrameMakers(store.trace) :
          store.trace[e].ev = "enter" /\ store.trace[c].ev = "call"
    /\ \E i \in 1..Len(store.envs) : Len(EnvChain(store, i)) >= 3
    /\ \E s \in 1..Len(store.trace) :
          /\ store.trace[s].ev = "set"
          /\ store.envs[store.trace[s].env].parent \notin {0, Root}

(***************************************************************************)
(* C29: the one-token cache.  What next_token gives without any peek is    *)
(* read off the source: the tokens of the whole text, comments included,   *)
(* of which a call takes the first one after the token delivered last,     *)
(* comments passed over unless the call allows them.                       *)
(***************************************************************************)
RECURSIVE RawTokens(_)
\* the tokens read from lx on, comments included, up to EOF; a token named
\* LexerError ends the stream where the lexer raises
RawTokens(lx) ==
    LET rest(r) ==
            IF r.err # "" THEN <<[name |-> "LexerError", value |-> r.err, line |-> 0, column |-> 0]>>
            ELSE IF r.tok.name = "EOF" THEN <<>>
            ELSE <<r.tok>> \o RawTokens(r.lx)
    IN  rest(Lexer_next_token(lx, TRUE))

\* the same token of the same place of the text
SameToken(s, t) ==
    /\ s.name = t.name
    /\ s.line = t.line /\ s.column = t.column
    /\ s.value = t.value

\* where in raw the token delivered last stands, 0 before the first delivery
PlaceOfLast(raw, d) ==
    IF d = <<>> THEN 0
    ELSE CHOOSE j \in 1..Len(raw) :
             raw[j].line = d[Len(d)].line /\ raw[j].column = d[Len(d)].column

\* the place of the token a call of next_token(allow_comment) reads after
\* place i, 0 when only EOF is left
PlaceOfNext(raw, i, allow_comment) ==
    LET later == {j \in (i + 1)..Len(raw) : allow_comment \/ raw[j].name # "COMMENT"} IN
    IF later = {} THEN 0 ELSE CHOOSE j \in later : \A k \in later : j <= k

\* a call right after a peek_token that returned a token
AfterPeek == returned.call = "peek_token" /\ returned.error = ""

\* a peek_token right after a peek_token returns the same token and leaves
\* the lexer as it is
PeekDoesNotConsume ==
    (AfterPeek /\ returned'.call = "peek_token") =>
        /\ returned'.error = ""
        /\ SameToken(returned'.token, returned.token)
        /\ lexer' = lexer

\* a next_token right after a peek_token returns the peeked token and empties
\* the cache
NextGivesPeeked ==
    (AfterPeek /\ returned'.call = "next_token") =>
        /\ returned'.error = ""
        /\ SameToken(returned'.token, returned.token)
        /\ lexer' = [lexer EXCEPT !.peeked_token = NoToken]

\* a next_token returns what it would return had no peek_token or is_done
\* been called since the start: the next token of the source after the one
\* delivered last (on a source the lexer reads without raising)
NextGivesNextOfSource ==
    LET raw == RawTokens(Lexer(lexer.source)) IN
    ((\A j \in 1..Len(raw) : raw[j].name # "LexerError") /\ returned'.call = "next_token") =>
        LET j == PlaceOfNext(raw, PlaceOfLast(raw, delivered), returned'.allow_comment) IN
        /\ returned'.error = ""
        /\ IF j = 0 THEN returned'.token.name = "EOF" ELSE SameToken(returned'.token, raw[j])

\* C29: the one-token cache is transparent: consecutive calls of peek_token
\* return the same token and consume nothing, the next_token after a
\* peek_token returns the peeked token and empties the cache, and every
\* next_token returns the token it would return without any call of
\* peek_token or is_done in between.
C29_CacheTransparent ==
    [][PeekDoesNotConsume /\ NextGivesPeeked /\ NextGivesNextOfSource]_vars

(***************************************************************************)
(* C30: errors unwind to the caller of evaluate.  The operands of a node   *)
(* are the sub-expressions it evaluates in its own environment, in order.  *)
(***************************************************************************)
\* the operands of a Binary node (an assignment to a name evaluates its
\* right side only) and the elements of a Tuple or List
OperandsOf(e) ==
    CASE e.node = "Binary" ->
            IF e.operator = "ASSIGNMENT" THEN <<e.right>> ELSE <<e.left, e.right>>
      [] e.node \in {"Tuple", "List"} -> e.elements
      [] OTHER -> <<>>

RECURSIVE FirstFailure(_, _, _)
\* the operands cs[j], cs[j + 1], ... evaluated in the root environment, each
\* on the store its predecessor left, up to the first that fails: its
\* position (0 when none fails), the store it was evaluated on and its outcome
FirstFailure(cs, j, st) ==
    IF j > Len(cs) THEN [at |-> 0, before |-> st, res |-> Ok(st, Unit)]
    ELSE LET Outcome(r) ==
                 IF r.err # "" THEN [at |-> j, before |-> st, res |-> r]
                 ELSE FirstFailure(cs, j + 1, r.st)
         IN  Outcome(evaluate_expression(cs[j], Root, st))

RECURSIVE Unwinds(_, _)
\* when an operand of e fails, e fails with that operand's error on the store
\* that operand left (nothing is evaluated after it), and so inside the
\* failing operand
Unwinds(e, st) ==
    LET r == evaluate_expression(e, Root, st)
        f == FirstFailure(OperandsOf(e), 1, st)
    IN  f.at # 0 =>
            /\ r.err = f.res.err
            /\ Len(r.st.trace) = Len(f.res.st.trace)
            /\ r.st = f.res.st
            /\ Unwinds(OperandsOf(e)[f.at], f.before)

\* the top-level expressions that fail when evaluated in source order
Failing == {k \in 1..Len(program) : InOrder(program, k).err # ""}

\* C30: when an expression fails the whole evaluate call fails with that
\* error and returns no value; nothing is evaluated after the failure:
\* the store is the one the first failing top-level expression left, and
\* inside that expression the one its first failing operand left.
C30_ErrorsUnwind ==
    (status # "ready" /\ Failing # {}) =>
        LET k == CHOOSE i \in Failing : \A j \in Failing : i <= j
            r == InOrder(program, k)
        IN  /\ status = "error"
            /\ result = NoneAtom
            /\ error = r.err
            /\ Len(store.trace) = Len(r.st.trace)
            /\ store = r.st
            /\ Unwinds(program[k], InOrder(program, k - 1).st)

\* an element of a list inside a tuple failed after the program had bound
\* names, with elements and top-level expressions still to come
C30_Witness ==
    /\ status = "error"
    /\ error = "identifier is not defined"
    /\ \E k \in 2..(Len(program) - 1) :
          /\ InOrder(program, k - 1).err = ""
          /\ InOrder(program, k).err # ""
          /\ program[k].node = "Tuple"
          /\ FirstFailure(OperandsOf(program[k]), 1, InOrder(program, k - 1).st).at = 1
          /\ program[k + 1] = Assign(Id("x"), Num(1))

====
